---- MODULE Spec2Model ----
(***************************************************************************)
(* Agent Observability Dashboard (server.mjs): the log reconstruction      *)
(* engine.  Session files are JSONL logs; parseSessionSummary,             *)
(* parseTranscript and extractCommands fold the decoded records into a     *)
(* session summary, a transcript and a command stream; getMemoryFile       *)
(* answers requests for files of the workspace memory directories.         *)
(*                                                                         *)
(* Representation of JavaScript values                                     *)
(*   - free-form strings (timestamps, ids, texts, file names) are          *)
(*     sequences of UTF-16 code units, so that length, slicing and the     *)
(*     lexicographic order of the > operator are the real ones;            *)
(*     UndefinedStr stands for a missing or null property (the code tells  *)
(*     them apart nowhere: it reads them with ?? and truthiness); a        *)
(*     timestamp is a string or missing, never null;                       *)
(*   - tags the code only compares with literals or passes through         *)
(*     (type, customType, role, toolName) are TLA+ strings; UndefinedTag   *)
(*     stands for a missing property;                                      *)
(*   - numbers are naturals; UndefinedNum stands for a missing property;   *)
(*   - optional objects carry a field  present.                            *)
(***************************************************************************)
EXTENDS Integers, Sequences, FiniteSets, TLC

VARIABLES
    files,       \* the sessions directory, in readdir order: files with name, mtime and lines
    dirReadable, \* whether readdirSync(SESSIONS_DIR) succeeds
    request,     \* the last query made and its arguments
    summary,     \* result of the last parseSessionSummary
    transcript,  \* result of the last parseTranscript
    cmds,        \* result of the last extractCommands
    workspace,   \* the readable regular files of the machine: location -> content
    readAt,      \* the location the last getMemoryFile handed to readFileSync
    response,    \* the answer to the last memory-file request
    decoded,     \* result of the last parseJsonl
    text,        \* the string truncate is applied to, then its result
    outcome,     \* how the last query ended: "returned", or the error it raised
    sessions,    \* the list the last sessions query answered with
    reqs,        \* the requests being served: what each asks, where its handler is, its answer
    accs,        \* the accumulator of each handler call (cmds, result)
    ui,          \* the ObservabilityState of the UI controller
    inFlight,    \* the controller calls waiting for a fetch, oldest first
    gateway,     \* the answers of the gateway copy of the engine to the last query
    env          \* process.env of the server: HOME, missing when the variable is not set

vars == <<files, dirReadable, request, summary, transcript, cmds, workspace, readAt, response,
          decoded, text, outcome, sessions, reqs, accs, ui, inFlight, gateway, env>>

-----------------------------------------------------------------------------
(* JavaScript values *)

UndefinedStr == <<-1>>
UndefinedTag == "undefined"
UndefinedNum == -1
Null == [null |-> TRUE]

\* a ?? b
CoalesceStr(a, b) == IF a = UndefinedStr THEN b ELSE a
CoalesceTag(a, b) == IF a = UndefinedTag THEN b ELSE a
CoalesceNum(a, b) == IF a = UndefinedNum THEN b ELSE a

\* truthiness of a string value: neither missing nor ""
TruthyStr(s) == s # UndefinedStr /\ s # <<>>

\* a > b on two string operands compares code units lexicographically
RECURSIVE LexGreater(_, _)
LexGreater(a, b) ==
    IF a = <<>> THEN FALSE
    ELSE IF b = <<>> THEN TRUE
    ELSE IF Head(a) # Head(b) THEN Head(a) > Head(b)
    ELSE LexGreater(Tail(a), Tail(b))

\* a > b where an operand may be undefined: undefined converts to NaN and
\* every comparison with NaN is false
JsGreater(a, b) == a # UndefinedStr /\ b # UndefinedStr /\ LexGreater(a, b)

\* s.trim() is the empty string
WhiteSpace == {9, 10, 11, 12, 13, 32, 160, 5760, 8232, 8233, 8239, 8287, 12288, 65279} \cup (8192..8202)
IsBlank(s) == \A i \in 1..Len(s) : s[i] \in WhiteSpace

\* a ++ b ++ ... for a sequence of strings
RECURSIVE Concat(_)
Concat(ss) ==
    IF ss = <<>> THEN <<>>
    ELSE IF Len(ss) = 1 THEN ss[1]
    ELSE Concat(SubSeq(ss, 1, Len(ss) \div 2)) \o Concat(SubSeq(ss, Len(ss) \div 2 + 1, Len(ss)))

-----------------------------------------------------------------------------
(* Helpers of server.mjs *)

\* truncate(s, max)
\* the test s.length < max: a string of max characters gets the marker too
truncate_strictLess(s, max) == IF Len(s) < max THEN s ELSE SubSeq(s, 1, max) \o <<8230>>

\* the cut made without the marker
truncate_noEllipsis(s, max) == IF Len(s) <= max THEN s ELSE SubSeq(s, 1, max)

truncate(s, max) == IF Len(s) <= max THEN s ELSE SubSeq(s, 1, max) \o <<8230>>

\* parseJsonl(filePath): one decoded record per non-blank line that parses
\* to a truthy value; [] for an unreadable file
\* JSON.parse(l) returns: the line holds a JSON text, of a truthy value
\* (kind json) or of one of null, false, 0 and "" (kind falsy)
Parses(l) == l.kind \in {"json", "falsy"}
\* the line survives .map(JSON.parse or null).filter(Boolean)
LineDecodes(l) == Parses(l) /\ l.kind # "falsy"

\* no try around JSON.parse: the first line that does not parse empties the result
parseJsonl_failFast(f) ==
    IF ~f.readable \/ \E i \in 1..Len(f.lines) : f.lines[i].kind = "invalid" THEN <<>>
    ELSE LET kept == SelectSeq(f.lines, LineDecodes)
         IN  [i \in 1..Len(kept) |-> kept[i].value]

parseJsonl(f) ==
    IF ~f.readable THEN <<>>
    ELSE LET nonBlank == SelectSeq(f.lines, LAMBDA l : l.kind # "blank")
             kept     == SelectSeq(nonBlank, LineDecodes)
         IN  [i \in 1..Len(kept) |-> kept[i].value]

\* null as the value of a property of the args of a tool call
NullArg == <<-4>>
\* a ?? b on the value of a property of args: null and undefined give b
CoalesceArg(a, b) == IF a = UndefinedStr \/ a = NullArg THEN b ELSE a
\* a[key] of an args object: its members are [key, val] in insertion
\* order, no key twice; undefined for a key it does not have
ArgGet(a, key) ==
    IF \E i \in 1..Len(a.members) : a.members[i].key = key
    THEN a.members[CHOOSE i \in 1..Len(a.members) : a.members[i].key = key].val
    ELSE UndefinedStr
TaskKey    == <<116, 97, 115, 107>>
MessageKey == <<109, 101, 115, 115, 97, 103, 101>>
ModelKey   == <<109, 111, 100, 101, 108>>

\* JSON.stringify of a string: quotes around it, the quote, the backslash
\* and the control characters escaped, a surrogate without its pair
\* written as \udXXX
UnicodeEscape(c) ==
    LET HexChar(d) == IF d < 10 THEN 48 + d ELSE 87 + d
    IN  <<92, 117, HexChar(c \div 4096), HexChar((c \div 256) % 16), HexChar((c \div 16) % 16), HexChar(c % 16)>>
IsHighSurrogate(c) == c >= 55296 /\ c <= 56319
IsLowSurrogate(c)  == c >= 56320 /\ c <= 57343
JsonEscapeAt(s, i) ==
    LET c == s[i]
    IN  IF c = 34 THEN <<92, 34>>
        ELSE IF c = 92 THEN <<92, 92>>
        ELSE IF c = 8 THEN <<92, 98>>
        ELSE IF c = 12 THEN <<92, 102>>
        ELSE IF c = 10 THEN <<92, 110>>
        ELSE IF c = 13 THEN <<92, 114>>
        ELSE IF c = 9 THEN <<92, 116>>
        ELSE IF c < 32 THEN UnicodeEscape(c)
        ELSE IF IsHighSurrogate(c)
        THEN IF i < Len(s) /\ IsLowSurrogate(s[i + 1]) THEN <<c>> ELSE UnicodeEscape(c)
        ELSE IF IsLowSurrogate(c)
        THEN IF i > 1 /\ IsHighSurrogate(s[i - 1]) THEN <<c>> ELSE UnicodeEscape(c)
        ELSE <<c>>
JsonQuote(s) == <<34>> \o Concat([i \in 1..Len(s) |-> JsonEscapeAt(s, i)]) \o <<34>>

\* JSON.stringify walks the own property keys in the order of
\* OrdinaryOwnPropertyKeys. A key is an array index when it is the canonical
\* decimal text of an integer from 0 to 4294967294 ("2", "10"; not "01",
\* "-1", "1.5", "4294967295")
IsArrayIndex(key) ==
    LET Limit == <<52, 50, 57, 52, 57, 54, 55, 50, 57, 52>>
    IN  /\ key # <<>>
        /\ \A i \in 1..Len(key) : key[i] \in 48..57
        /\ key[1] = 48 => Len(key) = 1
        /\ \/ Len(key) < 10
           \/ /\ Len(key) = 10
              /\ ~\E p \in 1..10 : key[p] > Limit[p] /\ \A q \in 1..(p - 1) : key[q] = Limit[q]
\* the own properties of an object in the order they are enumerated: the
\* array indices in ascending numeric order, then the other keys in the
\* order they were written (a.members: [key, val] as written, no key twice).
\* EnumeratedBefore: key m comes before key n, earlier telling which of the
\* two was written first
EnumeratedBefore(m, n, earlier) ==
    IF IsArrayIndex(n)
    THEN /\ IsArrayIndex(m)
         /\ \/ Len(m) < Len(n)
            \/ Len(m) = Len(n) /\ \E p \in 1..Len(m) : m[p] < n[p] /\ \A q \in 1..(p - 1) : m[q] = n[q]
    ELSE IsArrayIndex(m) \/ earlier
OwnProperties(a) ==
    [k \in 1..Len(a.members) |->
        a.members[CHOOSE i \in 1..Len(a.members) :
                      Cardinality({j \in 1..Len(a.members) :
                                      EnumeratedBefore(a.members[j].key, a.members[i].key, j < i)}) = k - 1]]

\* JSON.stringify of an args object whose values are strings or null:
\* the own properties in their enumeration order, joined by commas
JsonMember(m) ==
    JsonQuote(m.key) \o <<58>> \o (IF m.val = NullArg THEN <<110, 117, 108, 108>> ELSE JsonQuote(m.val))
RECURSIVE JoinComma(_)
JoinComma(ms) ==
    IF ms = <<>> THEN <<>>
    ELSE JsonMember(Head(ms)) \o (IF Len(ms) = 1 THEN <<>> ELSE <<44>> \o JoinComma(Tail(ms)))
JsonStringify(a) == <<123>> \o JoinComma(OwnProperties(a)) \o <<125>>

\* s.endsWith(suf), s.includes(sub), s.replace(sub, "")
JsonlExt  == <<46, 106, 115, 111, 110, 108>>
ResetMark == <<46, 114, 101, 115, 101, 116, 46>>
EndsWith(s, suf) == Len(s) >= Len(suf) /\ SubSeq(s, Len(s) - Len(suf) + 1, Len(s)) = suf
Occurrences(s, sub) == {i \in 1..(Len(s) - Len(sub) + 1) : SubSeq(s, i, i + Len(sub) - 1) = sub}
Includes(s, sub) == Occurrences(s, sub) # {}
RemoveFirst(s, sub) ==
    IF ~Includes(s, sub) THEN s
    ELSE LET i == CHOOSE k \in Occurrences(s, sub) : \A j \in Occurrences(s, sub) : k <= j
         IN  SubSeq(s, 1, i - 1) \o SubSeq(s, i + Len(sub), Len(s))

\* path.basename(name, ".jsonl") of a file name without directory part
Basename(name, ext) ==
    IF name # ext /\ EndsWith(name, ext) THEN SubSeq(name, 1, Len(name) - Len(ext)) ELSE name

-----------------------------------------------------------------------------
(* Shapes of the decoded values, with every optional property missing *)

NoArgs    == [present |-> FALSE, members |-> <<>>]
EmptyArgs == [NoArgs EXCEPT !.present = TRUE]
Member(key, val) == [key |-> key, val |-> val]
ArgsOf(members) == [present |-> TRUE, members |-> members]
NoContent == [kind |-> "none", str |-> <<>>, blocks |-> <<>>]
NoUsage   == [present |-> FALSE, input |-> UndefinedNum, output |-> UndefinedNum,
              cacheRead |-> UndefinedNum, totalTokens |-> UndefinedNum, cost |-> UndefinedNum]
NoMessage == [present |-> FALSE, role |-> UndefinedTag, channel |-> UndefinedStr,
              usage |-> NoUsage, content |-> NoContent]
NoData    == [present |-> FALSE, modelId |-> UndefinedStr, provider |-> UndefinedStr]
NoRecord  == [type |-> UndefinedTag, timestamp |-> UndefinedStr, id |-> UndefinedStr,
              modelId |-> UndefinedStr, provider |-> UndefinedStr,
              customType |-> UndefinedTag, data |-> NoData, message |-> NoMessage]
NoBlock   == [isNull |-> FALSE, type |-> UndefinedTag, text |-> UndefinedStr, toolCallId |-> UndefinedStr,
              toolName |-> UndefinedTag, args |-> NoArgs, content |-> NoContent]
\* null where a content block or an item of a toolResult content is expected
NullBlock == [NoBlock EXCEPT !.isNull = TRUE]
\* a number where the text of a text block is expected
NumberStr == <<-2>>

-----------------------------------------------------------------------------
(* parseSessionSummary *)

\* the toolCall blocks named sessions_spawn or subagents of one message
IsSpawn(b) == b.type = "toolCall" /\ (b.toolName = "sessions_spawn" \/ b.toolName = "subagents")
\* the timestamp taken from the record alone, without ?? lastTs
SubAgentOf_noFallback(b, ts, lastTs) ==
    LET a == IF b.args.present THEN b.args ELSE EmptyArgs
    IN  [task      |-> truncate(CoalesceArg(ArgGet(a, TaskKey), CoalesceArg(ArgGet(a, MessageKey), JsonStringify(a))), 200),
         model     |-> CoalesceArg(ArgGet(a, ModelKey), UndefinedStr),
         timestamp |-> ts]

SubAgentOf(b, ts, lastTs) ==
    LET a == IF b.args.present THEN b.args ELSE EmptyArgs
    IN  [task      |-> truncate(CoalesceArg(ArgGet(a, TaskKey), CoalesceArg(ArgGet(a, MessageKey), JsonStringify(a))), 200),
         model     |-> CoalesceArg(ArgGet(a, ModelKey), UndefinedStr),
         timestamp |-> CoalesceStr(ts, lastTs)]

\* if (e.timestamp && e.timestamp > lastTs) lastTs = e.timestamp
LastTsAfter(lastTs, e) ==
    IF TruthyStr(e.timestamp) /\ JsGreater(e.timestamp, lastTs) THEN e.timestamp ELSE lastTs

\* the assignment without ?? : a record without modelId clears the model
ModelAfter_overwrite(old, new) == new

\* model = e.modelId ?? model, and the same for provider
ModelAfter(old, new) == CoalesceStr(new, old)

\* total computed from input and output instead of read from totalTokens
TokAfter_totalFromParts(tok, u) ==
    [input     |-> tok.input + CoalesceNum(u.input, 0),
     output    |-> tok.output + CoalesceNum(u.output, 0),
     cacheRead |-> tok.cacheRead + CoalesceNum(u.cacheRead, 0),
     total     |-> tok.total + CoalesceNum(u.input, 0) + CoalesceNum(u.output, 0)]

\* tok.input += msg.usage.input ?? 0, and the same for the other counters
TokAfter(tok, u) ==
    [input     |-> tok.input + CoalesceNum(u.input, 0),
     output    |-> tok.output + CoalesceNum(u.output, 0),
     cacheRead |-> tok.cacheRead + CoalesceNum(u.cacheRead, 0),
     total     |-> tok.total + CoalesceNum(u.totalTokens, 0)]

\* the session record looked for anywhere in the file
NotASession_anywhere(entries) == \A i \in 1..Len(entries) : entries[i].type # "session"

\* msgCount++ moved below the test of msg: a record without message
\* object is not counted
MsgCountAfter_afterContinue(msgCount, e) ==
    IF e.type = "message" /\ e.message.present THEN msgCount + 1 ELSE msgCount

\* if (e.type === "message") msgCount++
MsgCountAfter(msgCount, e) ==
    IF e.type = "message" THEN msgCount + 1 ELSE msgCount

\* the test !channel left out: the channel of the last message wins
ChannelAfter_lastWins(channel, msg) ==
    IF TruthyStr(msg.channel) THEN msg.channel ELSE channel

\* if (!channel && msg.channel) channel = msg.channel
ChannelAfter(channel, msg) ==
    IF ~TruthyStr(channel) /\ TruthyStr(msg.channel) THEN msg.channel ELSE channel

\* !entries.length || entries[0].type !== "session"
NotASession(entries) == entries = <<>> \/ entries[1].type # "session"

\* one iteration of the loop over the entries
SummaryStep(acc, e) ==
    LET lastTs == LastTsAfter(acc.lastTs, e)
        a1 == [acc EXCEPT !.lastTs = lastTs]
        a2 == IF e.type = "model_change"
              THEN [a1 EXCEPT !.model = ModelAfter(a1.model, e.modelId),
                              !.provider = ModelAfter(a1.provider, e.provider)]
              ELSE a1
        a3 == IF e.type = "custom" /\ e.customType = "model-snapshot" /\ e.data.present
              THEN [a2 EXCEPT !.model = ModelAfter(a2.model, e.data.modelId),
                              !.provider = ModelAfter(a2.provider, e.data.provider)]
              ELSE a2
        msg == e.message
        a4 == [a3 EXCEPT !.msgCount = MsgCountAfter(@, e)]
        a5 == [a4 EXCEPT !.channel = ChannelAfter(@, msg)]
        u  == msg.usage
        a6 == IF u.present
              THEN [a5 EXCEPT !.tok = TokAfter(@, u),
                              !.cost = IF u.cost # UndefinedNum /\ u.cost # 0 THEN @ + u.cost ELSE @]
              ELSE a5
        spawns == IF msg.content.kind = "array" THEN SelectSeq(msg.content.blocks, IsSpawn) ELSE <<>>
        a7 == [a6 EXCEPT !.subAgents =
                  @ \o [i \in 1..Len(spawns) |-> SubAgentOf(spawns[i], e.timestamp, lastTs)]]
    IN  IF e.type # "message" THEN a3
        ELSE IF ~msg.present THEN a4
        ELSE a7

RECURSIVE SummaryFold(_, _)
SummaryFold(acc, entries) ==
    IF entries = <<>> THEN acc ELSE SummaryFold(SummaryStep(acc, Head(entries)), Tail(entries))

parseSessionSummary(f) ==
    LET entries == parseJsonl(f)
    IN  IF NotASession(entries) THEN Null
        ELSE LET first == entries[1]
                 acc0  == [lastTs |-> first.timestamp, model |-> UndefinedStr, provider |-> UndefinedStr,
                           channel |-> UndefinedStr, msgCount |-> 0,
                           tok |-> [input |-> 0, output |-> 0, cacheRead |-> 0, total |-> 0],
                           cost |-> 0, subAgents |-> <<>>]
                 acc   == SummaryFold(acc0, entries)
             IN  [null         |-> FALSE,
                  id           |-> CoalesceStr(first.id, Basename(f.name, JsonlExt)),
                  file         |-> f.name,
                  startTime    |-> first.timestamp,
                  lastActivity |-> acc.lastTs,
                  model        |-> acc.model,
                  provider     |-> acc.provider,
                  channel      |-> acc.channel,
                  messageCount |-> acc.msgCount,
                  tokenUsage   |-> acc.tok,
                  cost         |-> acc.cost,
                  subAgents    |-> acc.subAgents]

-----------------------------------------------------------------------------
(* parseTranscript *)

RoleType(role) == IF role = "user" THEN "user" ELSE IF role = "assistant" THEN "assistant" ELSE "system"

NoEntry == [type |-> UndefinedTag, timestamp |-> <<>>, role |-> UndefinedTag, content |-> UndefinedStr,
            toolName |-> UndefinedTag, toolArgs |-> UndefinedStr, result |-> UndefinedStr]

\* text preview of a toolResult block: its string content, or the texts
\* of the text items of its array content
ItemText(rc) == IF rc.type = "text" THEN CoalesceStr(rc.text, <<>>) ELSE <<>>
ResultPreview(b) ==
    IF b.content.kind = "string" THEN b.content.str
    ELSE IF b.content.kind = "array"
         THEN Concat([i \in 1..Len(b.content.blocks) |-> ItemText(b.content.blocks[i])])
    ELSE <<>>

\* the text tested without trim(): a text of spaces counts as text
HasText_noTrim(b) == b.text # UndefinedStr /\ b.text # <<>>

\* b.text?.trim()
HasText(b) == b.text # UndefinedStr /\ ~IsBlank(b.text)

\* the entries one content block of a message adds: none or one
BlockEntries(b, ts, role) ==
    IF b.type = "text" /\ HasText(b)
    THEN <<[NoEntry EXCEPT !.type = RoleType(role), !.timestamp = ts, !.role = role,
                           !.content = truncate(b.text, 2000)]>>
    ELSE IF b.type = "toolCall"
    THEN <<[NoEntry EXCEPT !.type = "tool_call", !.timestamp = ts, !.toolName = b.toolName,
                           !.toolArgs = truncate(JsonStringify(IF b.args.present THEN b.args ELSE EmptyArgs), 1000)]>>
    ELSE IF b.type = "toolResult"
    THEN <<[NoEntry EXCEPT !.type = "tool_result", !.timestamp = ts, !.toolName = b.toolName,
                           !.result = truncate(ResultPreview(b), 500)]>>
    ELSE <<>>

\* a message whose content is neither a string nor an array is pushed as an
\* entry with empty content instead of being skipped
RecordEntries_unknownContent(e) ==
    LET ts  == CoalesceStr(e.timestamp, <<>>)
        msg == e.message
    IN  IF e.type = "model_change"
        THEN <<[NoEntry EXCEPT !.type = "model_change", !.timestamp = ts,
                               !.content = <<77, 111, 100, 101, 108, 32, 8594, 32>>
                                           \o CoalesceStr(e.provider, <<>>) \o <<47>>
                                           \o CoalesceStr(e.modelId, <<>>)]>>
        ELSE IF e.type # "message" \/ ~msg.present THEN <<>>
        ELSE IF msg.content.kind = "string"
        THEN <<[NoEntry EXCEPT !.type = RoleType(msg.role), !.timestamp = ts, !.role = msg.role,
                               !.content = truncate(msg.content.str, 2000)]>>
        ELSE IF msg.content.kind # "array"
        THEN <<[NoEntry EXCEPT !.type = RoleType(msg.role), !.timestamp = ts, !.role = msg.role]>>
        ELSE Concat([i \in 1..Len(msg.content.blocks) |-> BlockEntries(msg.content.blocks[i], ts, msg.role)])

\* the entries one record adds (the body of the loop over the entries)
RecordEntries(e) ==
    LET ts  == CoalesceStr(e.timestamp, <<>>)
        msg == e.message
    IN  IF e.type = "model_change"
        THEN <<[NoEntry EXCEPT !.type = "model_change", !.timestamp = ts,
                               !.content = <<77, 111, 100, 101, 108, 32, 8594, 32>>
                                           \o CoalesceStr(e.provider, <<>>) \o <<47>>
                                           \o CoalesceStr(e.modelId, <<>>)]>>
        ELSE IF e.type # "message" \/ ~msg.present THEN <<>>
        ELSE IF msg.content.kind = "string"
        THEN <<[NoEntry EXCEPT !.type = RoleType(msg.role), !.timestamp = ts, !.role = msg.role,
                               !.content = truncate(msg.content.str, 2000)]>>
        ELSE IF msg.content.kind # "array" THEN <<>>
        ELSE Concat([i \in 1..Len(msg.content.blocks) |-> BlockEntries(msg.content.blocks[i], ts, msg.role)])

\* result.unshift in place of result.push: the entries of a later record
\* come first
parseTranscript_unshift(f) ==
    LET entries == parseJsonl(f)
    IN  Concat([i \in 1..Len(entries) |-> RecordEntries(entries[Len(entries) + 1 - i])])

parseTranscript(f) ==
    LET entries == parseJsonl(f)
    IN  Concat([i \in 1..Len(entries) |-> RecordEntries(entries[i])])

-----------------------------------------------------------------------------
(* Array.prototype.sort / toSorted as V8 runs them on an array of fewer    *)
(* than 64 elements: the leading run is found (and reversed when it is     *)
(* strictly descending), then the rest is put in place by binary           *)
(* insertion.  w is the work array, holding indices into the array being   *)
(* sorted; neg[i][j] tells whether comparefn(arr[i], arr[j]) < 0.          *)

RECURSIVE RunEnd(_, _, _, _)
RunEnd(w, neg, desc, idx) ==
    IF idx > Len(w) THEN Len(w)
    ELSE IF neg[w[idx]][w[idx - 1]] = desc THEN RunEnd(w, neg, desc, idx + 1)
    ELSE idx - 1

Reverse(s) == [i \in 1..Len(s) |-> s[Len(s) + 1 - i]]

\* positions are counted from 0 as in the source; w[mid + 1] is element mid
RECURSIVE BinarySearch(_, _, _, _, _)
BinarySearch(w, neg, pivot, left, right) ==
    IF left >= right THEN left
    ELSE LET mid == left + ((right - left) \div 2)
         IN  IF neg[pivot][w[mid + 1]] THEN BinarySearch(w, neg, pivot, left, mid)
             ELSE BinarySearch(w, neg, pivot, mid + 1, right)

RECURSIVE BinaryInsertionSort(_, _, _)
BinaryInsertionSort(w, neg, start) ==
    IF start >= Len(w) THEN w
    ELSE LET pivot == w[start + 1]
             left  == BinarySearch(w, neg, pivot, 0, start)
             w2    == SubSeq(w, 1, left) \o <<pivot>> \o SubSeq(w, left + 1, start)
                      \o SubSeq(w, start + 2, Len(w))
         IN  BinaryInsertionSort(w2, neg, start + 1)

SortIndices(n, neg) ==
    LET w0 == [i \in 1..n |-> i]
    IN  IF n < 2 THEN w0
        ELSE LET desc == neg[w0[2]][w0[1]]
                 run  == RunEnd(w0, neg, desc, 3)
                 w1   == IF desc THEN Reverse(SubSeq(w0, 1, run)) \o SubSeq(w0, run + 1, n) ELSE w0
             IN  BinaryInsertionSort(w1, neg, run)

\* (a, b) => b.mt - a.mt
ByMtimeDesc(a, b) == b.mt - a.mt
\* the comparator with its operands swapped: oldest first
ByTimestampDesc_ascending(a, b) == IF JsGreater(a.timestamp, b.timestamp) THEN 1 ELSE -1

\* (a, b) => (b.timestamp > a.timestamp ? 1 : -1)
ByTimestampDesc(a, b) == IF JsGreater(b.timestamp, a.timestamp) THEN 1 ELSE -1

SortByMtime(arr) ==
    LET neg  == [i \in 1..Len(arr) |-> [j \in 1..Len(arr) |-> ByMtimeDesc(arr[i], arr[j]) < 0]]
        perm == SortIndices(Len(arr), neg)
    IN  [k \in 1..Len(arr) |-> arr[perm[k]]]

SortByTimestamp(arr) ==
    LET neg  == [i \in 1..Len(arr) |-> [j \in 1..Len(arr) |-> ByTimestampDesc(arr[i], arr[j]) < 0]]
        perm == SortIndices(Len(arr), neg)
    IN  [k \in 1..Len(arr) |-> arr[perm[k]]]

-----------------------------------------------------------------------------
(* extractCommands *)

\* a Map as the sequence of its [key, val] pairs in insertion order
MapHas(m, k) == \E i \in 1..Len(m) : m[i].key = k
MapSet(m, k, v) ==
    IF MapHas(m, k) THEN [i \in 1..Len(m) |-> IF m[i].key = k THEN [key |-> k, val |-> v] ELSE m[i]]
    ELSE Append(m, [key |-> k, val |-> v])
MapGet(m, k) == (CHOOSE i \in 1..Len(m) : m[i].key = k)

\* the loop over the content blocks of one message: fills calls
RECURSIVE CallsOf(_, _, _)
CallsOf(blocks, ts, calls) ==
    IF blocks = <<>> THEN calls
    ELSE LET b == Head(blocks)
         IN  CallsOf(Tail(blocks), ts,
                     IF b.type = "toolCall"
                     THEN MapSet(calls, CoalesceStr(b.toolCallId, <<>>),
                                 [name |-> b.toolName,
                                  args |-> truncate(JsonStringify(IF b.args.present THEN b.args ELSE EmptyArgs), 500),
                                  ts   |-> CoalesceStr(ts, <<>>)])
                     ELSE calls)

\* results filled without the toolCallId: every result under the key ""
RECURSIVE ResultsOf_unkeyed(_, _)
ResultsOf_unkeyed(blocks, results) ==
    IF blocks = <<>> THEN results
    ELSE LET b == Head(blocks)
         IN  ResultsOf_unkeyed(Tail(blocks),
                               IF b.type = "toolResult"
                               THEN MapSet(results, <<>>, truncate(ResultPreview(b), 300))
                               ELSE results)

\* the same loop: fills results
RECURSIVE ResultsOf(_, _)
ResultsOf(blocks, results) ==
    IF blocks = <<>> THEN results
    ELSE LET b == Head(blocks)
         IN  ResultsOf(Tail(blocks),
                       IF b.type = "toolResult"
                       THEN MapSet(results, CoalesceStr(b.toolCallId, <<>>), truncate(ResultPreview(b), 300))
                       ELSE results)

\* an entry emitted for every result too, next to the entries of the calls
MessageCommands_resultEntries(sid, file, e) ==
    IF e.type # "message" \/ ~e.message.present \/ e.message.content.kind # "array" THEN <<>>
    ELSE LET calls   == CallsOf(e.message.content.blocks, e.timestamp, <<>>)
             results == ResultsOf(e.message.content.blocks, <<>>)
             lonely  == SelectSeq(results, LAMBDA r : ~MapHas(calls, r.key))
         IN  [i \in 1..Len(calls) |->
                 [sessionId     |-> sid,
                  sessionFile   |-> file,
                  timestamp     |-> calls[i].val.ts,
                  toolName      |-> calls[i].val.name,
                  args          |-> calls[i].val.args,
                  resultPreview |-> IF MapHas(results, calls[i].key)
                                    THEN results[MapGet(results, calls[i].key)].val ELSE <<>>]]
             \o [i \in 1..Len(lonely) |->
                 [sessionId     |-> sid,
                  sessionFile   |-> file,
                  timestamp     |-> CoalesceStr(e.timestamp, <<>>),
                  toolName      |-> UndefinedTag,
                  args          |-> <<>>,
                  resultPreview |-> <<>>]]

\* the entries one record adds to cmds
MessageCommands(sid, file, e) ==
    IF e.type # "message" \/ ~e.message.present \/ e.message.content.kind # "array" THEN <<>>
    ELSE LET calls   == CallsOf(e.message.content.blocks, e.timestamp, <<>>)
             results == ResultsOf(e.message.content.blocks, <<>>)
         IN  [i \in 1..Len(calls) |->
                 [sessionId     |-> sid,
                  sessionFile   |-> file,
                  timestamp     |-> calls[i].val.ts,
                  toolName      |-> calls[i].val.name,
                  args          |-> calls[i].val.args,
                  resultPreview |-> IF MapHas(results, calls[i].key)
                                    THEN results[MapGet(results, calls[i].key)].val ELSE <<>>]]

\* the entries one file adds to cmds
FileCommands(f) ==
    LET entries == parseJsonl(f)
        sid     == IF entries = <<>> THEN RemoveFirst(f.name, JsonlExt)
                   ELSE CoalesceStr(entries[1].id, RemoveFirst(f.name, JsonlExt))
    IN  Concat([i \in 1..Len(entries) |-> MessageCommands(sid, f.name, entries[i])])

\* the loop over the files, left once cmds holds maxCmds entries
RECURSIVE ScanFiles(_, _, _)
ScanFiles(fs, acc, maxCmds) ==
    IF fs = <<>> THEN acc
    ELSE LET acc2 == acc \o FileCommands(Head(fs))
         IN  IF Len(acc2) >= maxCmds THEN acc2 ELSE ScanFiles(Tail(fs), acc2, maxCmds)

IsSessionFile(f) == EndsWith(f.name, JsonlExt) /\ ~Includes(f.name, ResetMark)

\* fs.statSync raises for one of the names that passed the filter
StatRaises(dir) == \E i \in 1..Len(dir) : IsSessionFile(dir[i]) /\ ~dir[i].stat

\* the files the scan reads: the listing, filtered, sorted and cut; none
\* when statSync raises, the catch around the listing returning []
CandidateFiles(dir, maxFiles) ==
    IF StatRaises(dir) THEN <<>>
    ELSE LET sorted == SortByMtime(SelectSeq(dir, IsSessionFile))
         IN  SubSeq(sorted, 1, IF Len(sorted) < maxFiles THEN Len(sorted) ELSE maxFiles)

\* the scan left at the cap, but the sorted list returned whole
extractCommands_noSlice(dir, readable, maxFiles, maxCmds) ==
    IF ~readable THEN <<>>
    ELSE SortByTimestamp(ScanFiles(CandidateFiles(dir, maxFiles), <<>>, maxCmds))

extractCommands(dir, readable, maxFiles, maxCmds) ==
    IF ~readable THEN <<>>
    ELSE LET all    == ScanFiles(CandidateFiles(dir, maxFiles), <<>>, maxCmds)
             sorted == SortByTimestamp(all)
         IN  SubSeq(sorted, 1, IF Len(sorted) < maxCmds THEN Len(sorted) ELSE maxCmds)

-----------------------------------------------------------------------------
(* TypeErrors: the folds read b.type and rc.type of every block and item,  *)
(* which raises for null, and call b.text?.trim(), which raises for a      *)
(* number; no function of the server catches the error.                    *)

\* the blocks the loops over msg.content visit
ContentBlocks(e) ==
    IF e.type = "message" /\ e.message.present /\ e.message.content.kind = "array"
    THEN e.message.content.blocks ELSE <<>>
HasNull(blocks) == \E i \in 1..Len(blocks) : blocks[i].isNull
\* for (const rc of b.content): rc.type
ItemsThrow(b) == ~b.isNull /\ b.type = "toolResult" /\ b.content.kind = "array" /\ HasNull(b.content.blocks)

SummaryThrows(f) ==
    LET entries == parseJsonl(f)
    IN  ~NotASession(entries) /\ \E i \in 1..Len(entries) : HasNull(ContentBlocks(entries[i]))

TranscriptBlockThrows(b) == b.isNull \/ (b.type = "text" /\ b.text = NumberStr) \/ ItemsThrow(b)
TranscriptThrows(f) ==
    LET entries == parseJsonl(f)
    IN  \E i \in 1..Len(entries) : \E j \in 1..Len(ContentBlocks(entries[i])) :
            TranscriptBlockThrows(ContentBlocks(entries[i])[j])

CommandBlockThrows(b) == b.isNull \/ ItemsThrow(b)
FileThrows(f) ==
    LET entries == parseJsonl(f)
    IN  \E i \in 1..Len(entries) : \E j \in 1..Len(ContentBlocks(entries[i])) :
            CommandBlockThrows(ContentBlocks(entries[i])[j])
\* the loop over the files raises in the first file read that holds such a block
RECURSIVE ScanThrows(_, _, _)
ScanThrows(fs, acc, maxCmds) ==
    IF fs = <<>> THEN FALSE
    ELSE IF FileThrows(Head(fs)) THEN TRUE
    ELSE LET acc2 == acc \o FileCommands(Head(fs))
         IN  IF Len(acc2) >= maxCmds THEN FALSE ELSE ScanThrows(Tail(fs), acc2, maxCmds)
CommandsThrow(dir, readable, maxFiles, maxCmds) ==
    /\ readable
    /\ \E i \in 1..Len(dir) : FileThrows(dir[i])
    /\ ScanThrows(CandidateFiles(dir, maxFiles), <<>>, maxCmds)

-----------------------------------------------------------------------------
(* getMemoryFile: paths are strings, Slash their separator (path.sep) *)

Slash == 47
Dot == 46
ParentRef == <<Dot, Dot>>

StartsWith(s, pre) == Len(pre) <= Len(s) /\ SubSeq(s, 1, Len(pre)) = pre

\* s.split(path.sep)
RECURSIVE Split(_)
Split(s) ==
    LET at == {i \in 1..Len(s) : s[i] = Slash}
    IN  IF at = {} THEN <<s>>
        ELSE LET i == CHOOSE k \in at : \A o \in at : k <= o
             IN  <<SubSeq(s, 1, i - 1)>> \o Split(SubSeq(s, i + 1, Len(s)))

RECURSIVE Join(_)
Join(segs) ==
    IF segs = <<>> THEN <<>>
    ELSE IF Len(segs) = 1 THEN segs[1]
    ELSE segs[1] \o <<Slash>> \o Join(Tail(segs))

\* node:path normalizeString: empty and "." segments are dropped, ".." takes
\* the segment before it away, or stays when there is none to take and the
\* path is relative
RECURSIVE normalizeString(_, _, _)
normalizeString(segs, res, allowAboveRoot) ==
    IF segs = <<>> THEN res
    ELSE LET seg == Head(segs)
             nxt == IF seg = <<>> \/ seg = <<Dot>> THEN res
                    ELSE IF seg = ParentRef
                    THEN IF res # <<>> /\ res[Len(res)] # ParentRef THEN SubSeq(res, 1, Len(res) - 1)
                         ELSE IF allowAboveRoot THEN Append(res, seg) ELSE res
                    ELSE Append(res, seg)
         IN  normalizeString(Tail(segs), nxt, allowAboveRoot)

isAbsolute(p) == Len(p) > 0 /\ p[1] = Slash

\* path.normalize (posix)
normalize(p) ==
    IF p = <<>> THEN <<Dot>>
    ELSE LET trailing == p[Len(p)] = Slash
             body     == Join(normalizeString(Split(p), <<>>, ~isAbsolute(p)))
         IN  IF body = <<>>
             THEN IF isAbsolute(p) THEN <<Slash>> ELSE IF trailing THEN <<Dot, Slash>> ELSE <<Dot>>
             ELSE (IF isAbsolute(p) THEN <<Slash>> ELSE <<>>) \o body \o (IF trailing THEN <<Slash>> ELSE <<>>)

\* path.join(a, b)
join(a, b) ==
    IF a = <<>> THEN normalize(b)
    ELSE IF b = <<>> THEN normalize(a)
    ELSE normalize(a \o <<Slash>> \o b)

\* const HOME = process.env.HOME ?? "/home/ubuntu"
HOME == CoalesceStr(env.HOME, <<47, 104, 111, 109, 101, 47, 117, 98, 117, 110, 116, 117>>)
WORKSPACE_DIR == join(join(HOME, <<46, 111, 112, 101, 110, 99, 108, 97, 119>>), <<119, 111, 114, 107, 115, 112, 97, 99, 101>>)
MEMORY_DIRS ==
    {<<98, 117, 103, 115>>, <<100, 101, 99, 105, 115, 105, 111, 110, 115>>, <<100, 105, 97, 114, 121>>,
     <<103, 111, 116, 99, 104, 97, 115>>, <<103, 117, 105, 100, 101>>, <<112, 97, 116, 116, 101, 114, 110, 115>>}

\* the location getMemoryFile hands to readFileSync, NoLocation when the
\* path is turned down before any read
NoLocation == UndefinedStr

\* the first segment not looked up in MEMORY_DIRS
ReadTarget_noAllowList(fp) ==
    LET norm == normalize(fp)
    IN  IF StartsWith(norm, ParentRef) \/ isAbsolute(norm) THEN NoLocation
        ELSE join(WORKSPACE_DIR, norm)

ReadTarget(fp) ==
    LET norm == normalize(fp)
    IN  IF StartsWith(norm, ParentRef) \/ isAbsolute(norm) THEN NoLocation
        ELSE IF Split(norm)[1] \notin MEMORY_DIRS THEN NoLocation
        ELSE join(WORKSPACE_DIR, norm)

\* readFileSync throws for a location that is no readable regular file
\* (missing, or a directory)
Reads(ws, loc) == loc # NoLocation /\ loc \in DOMAIN ws

\* the content of the file, NullContent for the null the code returns
NullContent == UndefinedStr
getMemoryFile(ws, fp) ==
    LET loc == ReadTarget(fp)
    IN  IF Reads(ws, loc) THEN ws[loc] ELSE NullContent

NotFound == [status |-> 404, error |-> "Not found", path |-> <<>>, content |-> <<>>]

\* the answer that names the failure: 403 for a path turned down
MemoryFileResponse_reason(ws, fp) ==
    LET content == getMemoryFile(ws, fp)
    IN  IF ReadTarget(fp) = NoLocation THEN [NotFound EXCEPT !.status = 403, !.error = "Forbidden"]
        ELSE IF content = NullContent THEN NotFound
        ELSE [status |-> 200, error |-> "", path |-> fp, content |-> content]

\* the /memory/file/ branch of the request handler
MemoryFileResponse(ws, fp) ==
    LET content == getMemoryFile(ws, fp)
    IN  IF content = NullContent THEN NotFound
        ELSE [status |-> 200, error |-> "", path |-> fp, content |-> content]

-----------------------------------------------------------------------------
(* The queries *)

NoRequest == [op |-> "none", file |-> 0, maxFiles |-> 0, maxCmds |-> 0, path |-> <<>>, s |-> <<>>, max |-> 0]
Outcome(throws) == IF throws THEN "TypeError" ELSE "returned"

\* GET /api/session/<ref>/transcript

SESSIONS_DIR == join(join(join(join(HOME, <<46, 111, 112, 101, 110, 99, 108, 97, 119>>), <<97, 103, 101, 110, 116, 115>>), <<109, 97, 105, 110>>), <<115, 101, 115, 115, 105, 111, 110, 115>>)

\* decodeURIComponent: %XY stands for an octet, the octets for UTF-8; a %
\* without two hexadecimal digits or octets that are no UTF-8 raise URIError
URIError == <<-3>>
Percent == 37
HexDigit(c) ==
    IF c \in 48..57 THEN c - 48
    ELSE IF c \in 65..70 THEN c - 55
    ELSE IF c \in 97..102 THEN c - 87
    ELSE -1
\* the octet written at position k of s, -1 when none is
OctetAt(s, k) ==
    IF k + 2 <= Len(s) /\ s[k] = Percent /\ HexDigit(s[k + 1]) >= 0 /\ HexDigit(s[k + 2]) >= 0
    THEN 16 * HexDigit(s[k + 1]) + HexDigit(s[k + 2])
    ELSE -1
\* the length of the UTF-8 sequence a first octet announces, 0 for none
OctetCount(b) ==
    IF b < 0 THEN 0
    ELSE IF b < 128 THEN 1
    ELSE IF b \in 192..223 THEN 2
    ELSE IF b \in 224..239 THEN 3
    ELSE IF b \in 240..247 THEN 4
    ELSE 0
Continuation(b) == b \in 128..191
\* the code point of a UTF-8 sequence, -1 when it is not well formed
CodePoint(o) ==
    IF Len(o) = 1 THEN o[1]
    ELSE IF Len(o) = 2
    THEN IF o[1] >= 194 /\ Continuation(o[2]) THEN (o[1] - 192) * 64 + (o[2] - 128) ELSE -1
    ELSE IF Len(o) = 3
    THEN IF /\ Continuation(o[2]) /\ Continuation(o[3])
            /\ (o[1] = 224 => o[2] >= 160)
            /\ (o[1] = 237 => o[2] <= 159)
         THEN (o[1] - 224) * 4096 + (o[2] - 128) * 64 + (o[3] - 128)
         ELSE -1
    ELSE IF /\ o[1] <= 244
            /\ Continuation(o[2]) /\ Continuation(o[3]) /\ Continuation(o[4])
            /\ (o[1] = 240 => o[2] >= 144)
            /\ (o[1] = 244 => o[2] <= 143)
         THEN (o[1] - 240) * 262144 + (o[2] - 128) * 4096 + (o[3] - 128) * 64 + (o[4] - 128)
         ELSE -1
Utf16(cp) ==
    IF cp < 65536 THEN <<cp>>
    ELSE <<55296 + ((cp - 65536) \div 1024), 56320 + ((cp - 65536) % 1024)>>

RECURSIVE decodeURIComponent(_)
decodeURIComponent(s) ==
    IF s = <<>> THEN <<>>
    ELSE IF s[1] # Percent
    THEN LET rest == decodeURIComponent(Tail(s))
         IN  IF rest = URIError THEN URIError ELSE <<s[1]>> \o rest
    ELSE LET n == OctetCount(OctetAt(s, 1))
         IN  IF n = 0 \/ 3 * n > Len(s) THEN URIError
             ELSE LET o    == [j \in 1..n |-> OctetAt(s, 3 * j - 2)]
                      rest == decodeURIComponent(SubSeq(s, 3 * n + 1, Len(s)))
                  IN  IF (\E j \in 1..n : o[j] < 0) \/ CodePoint(o) < 0 \/ rest = URIError
                      THEN URIError
                      ELSE Utf16(CodePoint(o)) \o rest

\* encodeURIComponent, as the UI calls it on the path it asks for: the
\* unreserved characters kept, every other code point written as the
\* escaped octets of its UTF-8 form; a surrogate without its pair raises
Unreserved == (48..57) \cup (65..90) \cup (97..122) \cup {45, 95, 46, 33, 126, 42, 39, 40, 41}
PercentOctet(b) ==
    LET HexUpper(d) == IF d < 10 THEN 48 + d ELSE 55 + d
    IN  <<Percent, HexUpper(b \div 16), HexUpper(b % 16)>>
Utf8(cp) ==
    IF cp < 128 THEN PercentOctet(cp)
    ELSE IF cp < 2048 THEN PercentOctet(192 + (cp \div 64)) \o PercentOctet(128 + (cp % 64))
    ELSE IF cp < 65536
    THEN PercentOctet(224 + (cp \div 4096)) \o PercentOctet(128 + ((cp \div 64) % 64)) \o PercentOctet(128 + (cp % 64))
    ELSE PercentOctet(240 + (cp \div 262144)) \o PercentOctet(128 + ((cp \div 4096) % 64))
         \o PercentOctet(128 + ((cp \div 64) % 64)) \o PercentOctet(128 + (cp % 64))
RECURSIVE encodeURIComponent(_)
encodeURIComponent(s) ==
    IF s = <<>> THEN <<>>
    ELSE LET c     == s[1]
             pair  == IsHighSurrogate(c) /\ Len(s) >= 2 /\ IsLowSurrogate(s[2])
             alone == (IsHighSurrogate(c) \/ IsLowSurrogate(c)) /\ ~pair
             rest  == encodeURIComponent(SubSeq(s, IF pair THEN 3 ELSE 2, Len(s)))
         IN  IF alone \/ rest = URIError THEN URIError
             ELSE IF c \in Unreserved THEN <<c>> \o rest
             ELSE IF pair THEN Utf8(65536 + (c - 55296) * 1024 + (s[2] - 56320)) \o rest
             ELSE Utf8(c) \o rest

\* route.match(/^\/session\/([^/]+)\/transcript$/) and
\* route.match(/^\/memory\/file\/(.+)$/): the captured group, NoMatch for null
NoMatch == <<-6>>
txMatch(route) ==
    LET pre  == <<47, 115, 101, 115, 115, 105, 111, 110, 47>>
        post == <<47, 116, 114, 97, 110, 115, 99, 114, 105, 112, 116>>
        ref  == SubSeq(route, Len(pre) + 1, Len(route) - Len(post))
    IN  IF /\ StartsWith(route, pre) /\ EndsWith(route, post)
           /\ Len(route) > Len(pre) + Len(post)
           /\ \A i \in 1..Len(ref) : ref[i] # Slash
        THEN ref ELSE NoMatch
mfMatch(route) ==
    LET pre  == <<47, 109, 101, 109, 111, 114, 121, 47, 102, 105, 108, 101, 47>>
        rest == SubSeq(route, Len(pre) + 1, Len(route))
    IN  IF /\ StartsWith(route, pre) /\ rest # <<>>
           /\ \A i \in 1..Len(rest) : rest[i] \notin {10, 13, 8232, 8233}
        THEN rest ELSE NoMatch

\* .replace(/[^a-zA-Z0-9._-]/g, "")
RefChars == (48..57) \cup (65..90) \cup (97..122) \cup {46, 95, 45}
IsRefChar(c) == c \in RefChars
\* the reference taken as it is decoded
SessionRef_unfiltered(raw) == decodeURIComponent(raw)

SessionRef(raw) == SelectSeq(decodeURIComponent(raw), IsRefChar)

\* fp: the path looked up for the reference, NoLocation when none is set
TranscriptPath(dir, readable, ref) ==
    IF EndsWith(ref, JsonlExt) THEN join(SESSIONS_DIR, ref)
    ELSE IF ~readable THEN NoLocation
    ELSE LET hits == {i \in 1..Len(dir) : StartsWith(dir[i].name, ref) /\ EndsWith(dir[i].name, JsonlExt)}
         IN  IF hits = {} THEN NoLocation
             ELSE join(SESSIONS_DIR, dir[CHOOSE i \in hits : \A j \in hits : i <= j].name)

\* the file at a path: one of the sessions directory, or one elsewhere on
\* the machine (ws: location -> file)
InSessionsDir(dir, fp) == {i \in 1..Len(dir) : join(SESSIONS_DIR, dir[i].name) = fp}
\* fs.existsSync(fp): the path is asked for by name, the directory is not
\* listed; false for a name statSync raises for
existsSync(dir, ws, fp) == (\E i \in InSessionsDir(dir, fp) : dir[i].stat) \/ fp \in DOMAIN ws
FileAt(dir, ws, fp) ==
    IF InSessionsDir(dir, fp) # {} THEN dir[CHOOSE i \in InSessionsDir(dir, fp) : TRUE]
    ELSE ws[fp]

\* the path of the file whose transcript is answered, NoLocation for the
\* not-found answer
TranscriptFile(dir, readable, ws, raw) ==
    LET fp == TranscriptPath(dir, readable, SessionRef(raw))
    IN  IF fp = NoLocation \/ ~existsSync(dir, ws, fp) THEN NoLocation ELSE fp

\* GET /api/sessions

\* (a, b) => (b.lastActivity > a.lastActivity ? 1 : -1)
ByLastActivityDesc(a, b) == IF JsGreater(b.lastActivity, a.lastActivity) THEN 1 ELSE -1

SortByLastActivity(arr) ==
    LET neg  == [i \in 1..Len(arr) |-> [j \in 1..Len(arr) |-> ByLastActivityDesc(arr[i], arr[j]) < 0]]
        perm == SortIndices(Len(arr), neg)
    IN  [k \in 1..Len(arr) |-> arr[perm[k]]]

\* withMt.slice(0, 30)
SessionsCap == 30
\* the names statSync raises for are dropped (.filter(Boolean))
HasStat(f) == f.stat
NewestFiles(dir) ==
    LET withMt == SortByMtime(SelectSeq(SelectSeq(dir, IsSessionFile), HasStat))
    IN  SubSeq(withMt, 1, IF Len(withMt) < SessionsCap THEN Len(withMt) ELSE SessionsCap)

IsSummary(s) == s # Null

\* the sessions the handler answers with
listSessions(dir, readable) ==
    IF ~readable THEN <<>>
    ELSE LET top == NewestFiles(dir)
         IN  SortByLastActivity(SelectSeq([i \in 1..Len(top) |-> parseSessionSummary(top[i])], IsSummary))

SessionsThrow(dir, readable) ==
    readable /\ \E i \in 1..Len(NewestFiles(dir)) : SummaryThrows(NewestFiles(dir)[i])

\* parseSessionSummary(path.join(SESSIONS_DIR, files[i].name))
QuerySummary(i) ==
    /\ outcome' = Outcome(SummaryThrows(files[i]))
    /\ summary' = IF SummaryThrows(files[i]) THEN summary ELSE parseSessionSummary(files[i])
    /\ request' = [NoRequest EXCEPT !.op = "summary", !.file = i]
    /\ UNCHANGED <<files, dirReadable, transcript, cmds, workspace, readAt, response, decoded, text, sessions, reqs, accs, ui, inFlight, gateway, env>>

\* parseTranscript(path.join(SESSIONS_DIR, files[i].name))
QueryTranscript(i) ==
    /\ outcome' = Outcome(TranscriptThrows(files[i]))
    /\ transcript' = IF TranscriptThrows(files[i]) THEN transcript ELSE parseTranscript(files[i])
    /\ request' = [NoRequest EXCEPT !.op = "transcript", !.file = i]
    /\ UNCHANGED <<files, dirReadable, summary, cmds, workspace, readAt, response, decoded, text, sessions, reqs, accs, ui, inFlight, gateway, env>>

\* extractCommands(maxFiles, maxCmds)
QueryCommands(maxFiles, maxCmds) ==
    /\ outcome' = Outcome(CommandsThrow(files, dirReadable, maxFiles, maxCmds))
    /\ cmds' = IF outcome' = "TypeError" THEN cmds
               ELSE extractCommands(files, dirReadable, maxFiles, maxCmds)
    /\ request' = [NoRequest EXCEPT !.op = "commands", !.maxFiles = maxFiles, !.maxCmds = maxCmds]
    /\ UNCHANGED <<files, dirReadable, summary, transcript, workspace, readAt, response, decoded, text, sessions, reqs, accs, ui, inFlight, gateway, env>>

\* the memory-file route, raw being the group mfMatch[1] captured:
\* getMemoryFile is given the decoded group; a group that does not decode
\* raises URIError in the handler and nothing is answered
QueryMemoryFile(raw) ==
    LET fp  == decodeURIComponent(raw)
        bad == fp = URIError
    IN  /\ outcome' = IF bad THEN "URIError" ELSE "returned"
        /\ readAt' = IF bad THEN readAt ELSE ReadTarget(fp)
        /\ response' = IF bad THEN response ELSE MemoryFileResponse(workspace, fp)
        /\ request' = [NoRequest EXCEPT !.op = "memoryFile", !.path = IF bad THEN <<>> ELSE fp, !.s = raw]
        /\ UNCHANGED <<files, dirReadable, summary, transcript, cmds, workspace, decoded, text, sessions, reqs, accs, ui, inFlight, gateway, env>>

\* parseJsonl(path.join(SESSIONS_DIR, files[i].name))
Decode(i) ==
    /\ decoded' = parseJsonl(files[i])
    /\ request' = [NoRequest EXCEPT !.op = "decode", !.file = i]
    /\ outcome' = "returned"
    /\ UNCHANGED <<files, dirReadable, summary, transcript, cmds, workspace, readAt, response, text, sessions, reqs, accs, ui, inFlight, gateway, env>>

\* truncate(text, max)
Truncate(max) ==
    /\ text' = truncate(text, max)
    /\ request' = [NoRequest EXCEPT !.op = "truncate", !.s = text, !.max = max]
    /\ outcome' = "returned"
    /\ UNCHANGED <<files, dirReadable, summary, transcript, cmds, workspace, readAt, response, decoded, sessions, reqs, accs, ui, inFlight, gateway, env>>

\* GET /api/sessions
QuerySessions ==
    /\ outcome' = Outcome(SessionsThrow(files, dirReadable))
    /\ sessions' = IF outcome' = "TypeError" THEN sessions ELSE listSessions(files, dirReadable)
    /\ request' = [NoRequest EXCEPT !.op = "sessions"]
    /\ UNCHANGED <<files, dirReadable, summary, transcript, cmds, workspace, readAt, response, decoded, text, reqs, accs, ui, inFlight, gateway, env>>

\* The gateway copy of the engine (handleObservabilityRequest and the
\* functions it calls), written as the loops of its source.

\* the loop over the content blocks of one message of the summarizer
RECURSIVE gateway_subAgents(_, _, _, _)
gateway_subAgents(content, subAgents, ts, lastTs) ==
    IF content = <<>> THEN subAgents
    ELSE LET block == Head(content)
             args  == IF block.args.present THEN block.args ELSE EmptyArgs
             task  == IF ArgGet(args, TaskKey) # UndefinedStr /\ ArgGet(args, TaskKey) # NullArg
                      THEN ArgGet(args, TaskKey)
                      ELSE IF ArgGet(args, MessageKey) # UndefinedStr /\ ArgGet(args, MessageKey) # NullArg
                      THEN ArgGet(args, MessageKey)
                      ELSE JsonStringify(args)
         IN  gateway_subAgents(Tail(content),
                 IF block.type = "toolCall" /\ (block.toolName = "sessions_spawn" \/ block.toolName = "subagents")
                 THEN Append(subAgents, [task      |-> truncate(task, 200),
                                         model     |-> IF ArgGet(args, ModelKey) = NullArg THEN UndefinedStr
                                                       ELSE ArgGet(args, ModelKey),
                                         timestamp |-> IF ts # UndefinedStr THEN ts ELSE lastTs])
                 ELSE subAgents,
                 ts, lastTs)

\* the model and provider taken from the data of a model-snapshot record
\* before the test of data
gateway_snapshot_unchecked(s, e) ==
    [s EXCEPT !.model = e.data.modelId, !.provider = e.data.provider]

\* const data = e.data; if (data) { model = data.modelId ?? model; ... }
gateway_snapshot(s, e) ==
    IF e.data.present
    THEN [s EXCEPT !.model = IF e.data.modelId # UndefinedStr THEN e.data.modelId ELSE @,
                   !.provider = IF e.data.provider # UndefinedStr THEN e.data.provider ELSE @]
    ELSE s

\* the loop over the entries of the summarizer
RECURSIVE gateway_summaryLoop(_, _)
gateway_summaryLoop(entries, s) ==
    IF entries = <<>> THEN s
    ELSE LET e  == Head(entries)
             ts == e.timestamp
             s1 == IF TruthyStr(ts) /\ JsGreater(ts, s.lastTs) THEN [s EXCEPT !.lastTs = ts] ELSE s
             s2 == IF e.type = "model_change"
                   THEN [s1 EXCEPT !.model = IF e.modelId # UndefinedStr THEN e.modelId ELSE @,
                                   !.provider = IF e.provider # UndefinedStr THEN e.provider ELSE @]
                   ELSE s1
             s3 == IF e.type = "custom" /\ e.customType = "model-snapshot" THEN gateway_snapshot(s2, e) ELSE s2
             s4 == [s3 EXCEPT !.msgCount = @ + 1]
             msg == e.message
             s5 == IF ~TruthyStr(s4.channel) /\ TruthyStr(msg.channel)
                   THEN [s4 EXCEPT !.channel = msg.channel] ELSE s4
             usage == msg.usage
             s6 == IF usage.present
                   THEN [s5 EXCEPT !.tok.input = @ + (IF usage.input = UndefinedNum THEN 0 ELSE usage.input),
                                   !.tok.output = @ + (IF usage.output = UndefinedNum THEN 0 ELSE usage.output),
                                   !.tok.cacheRead = @ + (IF usage.cacheRead = UndefinedNum THEN 0 ELSE usage.cacheRead),
                                   !.tok.total = @ + (IF usage.totalTokens = UndefinedNum THEN 0 ELSE usage.totalTokens),
                                   !.cost = IF usage.cost # UndefinedNum /\ usage.cost # 0 THEN @ + usage.cost ELSE @]
                   ELSE s5
             s7 == IF msg.content.kind = "array"
                   THEN [s6 EXCEPT !.subAgents = gateway_subAgents(msg.content.blocks, @, ts, s1.lastTs)]
                   ELSE s6
         IN  gateway_summaryLoop(Tail(entries),
                 IF e.type # "message" THEN s3
                 ELSE IF ~msg.present THEN s4
                 ELSE s7)

gateway_parseSessionSummary(f) ==
    LET entries == parseJsonl(f)
    IN  IF Len(entries) = 0 THEN Null
        ELSE IF entries[1].type # "session" THEN Null
        ELSE LET first == entries[1]
                 s == gateway_summaryLoop(entries,
                          [lastTs |-> first.timestamp, model |-> UndefinedStr, provider |-> UndefinedStr,
                           channel |-> UndefinedStr, msgCount |-> 0,
                           tok |-> [input |-> 0, output |-> 0, cacheRead |-> 0, total |-> 0],
                           cost |-> 0, subAgents |-> <<>>])
             IN  [null         |-> FALSE,
                  id           |-> IF first.id # UndefinedStr THEN first.id ELSE Basename(f.name, JsonlExt),
                  file         |-> f.name,
                  startTime    |-> first.timestamp,
                  lastActivity |-> s.lastTs,
                  model        |-> s.model,
                  provider     |-> s.provider,
                  channel      |-> s.channel,
                  messageCount |-> s.msgCount,
                  tokenUsage   |-> s.tok,
                  cost         |-> s.cost,
                  subAgents    |-> s.subAgents]

\* the preview of a toolResult block: the loop over its items
RECURSIVE gateway_preview(_, _)
gateway_preview(rc, preview) ==
    IF rc = <<>> THEN preview
    ELSE gateway_preview(Tail(rc),
             IF Head(rc).type = "text"
             THEN preview \o (IF Head(rc).text # UndefinedStr THEN Head(rc).text ELSE <<>>)
             ELSE preview)
gateway_resultText(block) ==
    IF block.content.kind = "string" THEN block.content.str
    ELSE IF block.content.kind = "array" THEN gateway_preview(block.content.blocks, <<>>)
    ELSE <<>>

\* the loop over the content blocks of one message of the transcript builder
RECURSIVE gateway_blocks(_, _, _, _)
gateway_blocks(content, result, ts, role) ==
    IF content = <<>> THEN result
    ELSE LET block == Head(content)
             type  == IF role = "user" THEN "user" ELSE IF role = "assistant" THEN "assistant" ELSE "system"
         IN  gateway_blocks(Tail(content),
                 IF block.type = "text" /\ block.text # UndefinedStr /\ ~IsBlank(block.text)
                 THEN Append(result, [NoEntry EXCEPT !.type = type, !.timestamp = ts, !.role = role,
                                                     !.content = truncate(block.text, 2000)])
                 ELSE IF block.type = "toolCall"
                 THEN Append(result, [NoEntry EXCEPT !.type = "tool_call", !.timestamp = ts,
                                                     !.toolName = block.toolName,
                                                     !.toolArgs = truncate(JsonStringify(IF block.args.present
                                                                                         THEN block.args
                                                                                         ELSE EmptyArgs), 1000)])
                 ELSE IF block.type = "toolResult"
                 THEN Append(result, [NoEntry EXCEPT !.type = "tool_result", !.timestamp = ts,
                                                     !.toolName = block.toolName,
                                                     !.result = truncate(gateway_resultText(block), 500)])
                 ELSE result,
                 ts, role)

\* the loop over the entries of the transcript builder
RECURSIVE gateway_transcriptLoop(_, _)
gateway_transcriptLoop(entries, result) ==
    IF entries = <<>> THEN result
    ELSE LET e   == Head(entries)
             ts  == IF e.timestamp # UndefinedStr THEN e.timestamp ELSE <<>>
             msg == e.message
         IN  gateway_transcriptLoop(Tail(entries),
                 IF e.type = "model_change"
                 THEN Append(result, [NoEntry EXCEPT
                          !.type = "model_change", !.timestamp = ts,
                          !.content = <<77, 111, 100, 101, 108, 32, 8594, 32>>
                                      \o (IF e.provider # UndefinedStr THEN e.provider ELSE <<>>)
                                      \o <<47>>
                                      \o (IF e.modelId # UndefinedStr THEN e.modelId ELSE <<>>)])
                 ELSE IF e.type # "message" THEN result
                 ELSE IF ~msg.present THEN result
                 ELSE IF msg.content.kind = "string"
                 THEN Append(result, [NoEntry EXCEPT
                          !.type = IF msg.role = "user" THEN "user"
                                   ELSE IF msg.role = "assistant" THEN "assistant" ELSE "system",
                          !.timestamp = ts, !.role = msg.role,
                          !.content = truncate(msg.content.str, 2000)])
                 ELSE IF msg.content.kind # "array" THEN result
                 ELSE gateway_blocks(msg.content.blocks, result, ts, msg.role))

gateway_parseTranscript(f) == gateway_transcriptLoop(parseJsonl(f), <<>>)

\* the loop over the content blocks of one message of the command extractor:
\* the two Maps
RECURSIVE gateway_maps(_, _, _)
gateway_maps(content, maps, e) ==
    IF content = <<>> THEN maps
    ELSE LET block == Head(content)
             id    == IF block.toolCallId # UndefinedStr THEN block.toolCallId ELSE <<>>
             m1    == IF block.type = "toolCall"
                      THEN [maps EXCEPT !.calls = MapSet(@, id,
                                [name |-> block.toolName,
                                 args |-> truncate(JsonStringify(IF block.args.present THEN block.args
                                                                 ELSE EmptyArgs), 500),
                                 ts   |-> IF e.timestamp # UndefinedStr THEN e.timestamp ELSE <<>>])]
                      ELSE maps
             m2    == IF block.type = "toolResult"
                      THEN [m1 EXCEPT !.results = MapSet(@, id, truncate(gateway_resultText(block), 300))]
                      ELSE m1
         IN  gateway_maps(Tail(content), m2, e)

\* for (const [id, c] of calls) cmds.push(...)
RECURSIVE gateway_push(_, _, _, _, _)
gateway_push(calls, results, list, sid, file) ==
    IF calls = <<>> THEN list
    ELSE LET id == Head(calls).key
             c  == Head(calls).val
         IN  gateway_push(Tail(calls), results,
                 Append(list, [sessionId     |-> sid,
                               sessionFile   |-> file,
                               timestamp     |-> c.ts,
                               toolName      |-> c.name,
                               args          |-> c.args,
                               resultPreview |-> IF MapHas(results, id) THEN results[MapGet(results, id)].val
                                                 ELSE <<>>]),
                 sid, file)

\* the loop over the entries of one file of the command extractor
RECURSIVE gateway_entries(_, _, _, _)
gateway_entries(entries, list, sid, file) ==
    IF entries = <<>> THEN list
    ELSE LET e   == Head(entries)
             msg == e.message
         IN  gateway_entries(Tail(entries),
                 IF e.type # "message" THEN list
                 ELSE IF ~msg.present \/ msg.content.kind # "array" THEN list
                 ELSE LET maps == gateway_maps(msg.content.blocks, [calls |-> <<>>, results |-> <<>>], e)
                      IN  gateway_push(maps.calls, maps.results, list, sid, file),
                 sid, file)

\* the loop over the files of the command extractor
RECURSIVE gateway_files(_, _, _)
gateway_files(fs, list, maxCmds) ==
    IF fs = <<>> THEN list
    ELSE LET file    == Head(fs)
             entries == parseJsonl(file)
             sid     == IF entries # <<>> /\ entries[1].id # UndefinedStr THEN entries[1].id
                        ELSE RemoveFirst(file.name, JsonlExt)
             list2   == gateway_entries(entries, list, sid, file.name)
         IN  IF Len(list2) >= maxCmds THEN list2 ELSE gateway_files(Tail(fs), list2, maxCmds)

\* (a, b) => (b.timestamp > a.timestamp ? 1 : -1)
gateway_byTimestamp(a, b) == IF JsGreater(b.timestamp, a.timestamp) THEN 1 ELSE -1

gateway_extractCommands(dir, readable, maxFiles, maxCmds) ==
    IF ~readable THEN <<>>
    ELSE IF \E i \in 1..Len(dir) : /\ EndsWith(dir[i].name, JsonlExt) /\ ~Includes(dir[i].name, ResetMark)
                                    /\ ~dir[i].stat
    THEN <<>>
    ELSE LET named  == SelectSeq(dir, LAMBDA f : EndsWith(f.name, JsonlExt) /\ ~Includes(f.name, ResetMark))
             byMt   == [i \in 1..Len(named) |-> [j \in 1..Len(named) |-> named[j].mt - named[i].mt < 0]]
             order  == SortIndices(Len(named), byMt)
             sorted == [k \in 1..Len(named) |-> named[order[k]]]
             fs     == SubSeq(sorted, 1, IF maxFiles < Len(sorted) THEN maxFiles ELSE Len(sorted))
             list0  == gateway_files(fs, <<>>, maxCmds)
             byTs   == [i \in 1..Len(list0) |-> [j \in 1..Len(list0) |-> gateway_byTimestamp(list0[i], list0[j]) < 0]]
             perm   == SortIndices(Len(list0), byTs)
             out    == [k \in 1..Len(list0) |-> list0[perm[k]]]
         IN  SubSeq(out, 1, IF maxCmds < Len(out) THEN maxCmds ELSE Len(out))

NoAnswers == [summary |-> Null, transcript |-> <<>>, cmds |-> <<>>]

\* the same query put to the standalone server and to the gateway
AskBothSummary(i) ==
    /\ ~SummaryThrows(files[i])
    /\ summary' = parseSessionSummary(files[i])
    /\ gateway' = [NoAnswers EXCEPT !.summary = gateway_parseSessionSummary(files[i])]
    /\ request' = [NoRequest EXCEPT !.op = "summary", !.file = i]
    /\ outcome' = "returned"
    /\ UNCHANGED <<files, dirReadable, transcript, cmds, workspace, readAt, response, decoded, text,
                   sessions, reqs, accs, ui, inFlight, env>>

AskBothTranscript(i) ==
    /\ ~TranscriptThrows(files[i])
    /\ transcript' = parseTranscript(files[i])
    /\ gateway' = [NoAnswers EXCEPT !.transcript = gateway_parseTranscript(files[i])]
    /\ request' = [NoRequest EXCEPT !.op = "transcript", !.file = i]
    /\ outcome' = "returned"
    /\ UNCHANGED <<files, dirReadable, summary, cmds, workspace, readAt, response, decoded, text,
                   sessions, reqs, accs, ui, inFlight, env>>

AskBothCommands(maxFiles, maxCmds) ==
    /\ ~CommandsThrow(files, dirReadable, maxFiles, maxCmds)
    /\ cmds' = extractCommands(files, dirReadable, maxFiles, maxCmds)
    /\ gateway' = [NoAnswers EXCEPT !.cmds = gateway_extractCommands(files, dirReadable, maxFiles, maxCmds)]
    /\ request' = [NoRequest EXCEPT !.op = "commands", !.maxFiles = maxFiles, !.maxCmds = maxCmds]
    /\ outcome' = "returned"
    /\ UNCHANGED <<files, dirReadable, summary, transcript, workspace, readAt, response, decoded, text,
                   sessions, reqs, accs, ui, inFlight, env>>

\* Requests served side by side.  Each call of a handler allocates its
\* accumulator (const cmds = [], const result = []) and the list it walks;
\* a step of a call handles one file (extractCommands) or one record
\* (parseTranscript).

\* const cmds = []; const result = []: the accumulator belongs to the call
Accumulator(r) == r

NoCall == [op |-> "none", file |-> 0, maxFiles |-> 0, maxCmds |-> 0, pc |-> "waiting", todo |-> <<>>, result |-> <<>>]

\* http.createServer((req, res) => ...): the listener is called with nothing
\* around it that catches, so an error raised in a handler is an uncaught
\* exception of the process, which ends it; the process serves requests as
\* long as no handler has raised
Running == \A q \in DOMAIN reqs : reqs[q].pc # "raised"

\* the handler of request r is entered
Begin(r) ==
    /\ Running
    /\ reqs[r].pc = "waiting"
    /\ reqs' = [reqs EXCEPT ![r].pc = "running",
                            ![r].todo = IF reqs[r].op = "commands"
                                        THEN IF dirReadable THEN CandidateFiles(files, reqs[r].maxFiles) ELSE <<>>
                                        ELSE parseJsonl(files[reqs[r].file])]
    /\ accs' = [accs EXCEPT ![Accumulator(r)] = <<>>]
    /\ UNCHANGED <<files, dirReadable, request, summary, transcript, cmds, workspace, readAt, response,
                   decoded, text, outcome, sessions, ui, inFlight, gateway, env>>

\* one turn of the loop of request r: over the files, or over the records.
\* A turn that reads b.type of a null block, rc.type of a null item of a
\* toolResult or, in parseTranscript, b.text?.trim() of a number raises
\* TypeError: the call ends there, nothing is appended and no answer is sent
Step(r) ==
    /\ Running
    /\ reqs[r].pc = "running"
    /\ reqs[r].todo # <<>>
    /\ LET turn   == Head(reqs[r].todo)
           raises == IF reqs[r].op = "commands" THEN FileThrows(turn)
                     ELSE \E j \in 1..Len(ContentBlocks(turn)) : TranscriptBlockThrows(ContentBlocks(turn)[j])
           mine   == accs[Accumulator(r)]
           next   == IF reqs[r].op = "commands" THEN mine \o FileCommands(turn)
                     ELSE mine \o RecordEntries(turn)
       IN  IF raises
           THEN /\ reqs' = [reqs EXCEPT ![r].pc = "raised"]
                /\ accs' = accs
           ELSE /\ accs' = [accs EXCEPT ![Accumulator(r)] = next]
                /\ reqs' = [reqs EXCEPT ![r].todo = IF reqs[r].op = "commands" /\ Len(next) >= reqs[r].maxCmds
                                                    THEN <<>> ELSE Tail(reqs[r].todo)]
    /\ UNCHANGED <<files, dirReadable, request, summary, transcript, cmds, workspace, readAt, response,
                   decoded, text, outcome, sessions, ui, inFlight, gateway, env>>

\* the loop of request r is over: the answer is sent
Finish(r) ==
    /\ Running
    /\ reqs[r].pc = "running"
    /\ reqs[r].todo = <<>>
    /\ LET mine   == accs[Accumulator(r)]
           sorted == SortByTimestamp(mine)
       IN  reqs' = [reqs EXCEPT ![r].pc = "done",
                                ![r].result = IF reqs[r].op = "commands"
                                              THEN IF dirReadable
                                                   THEN SubSeq(sorted, 1, IF Len(sorted) < reqs[r].maxCmds
                                                                          THEN Len(sorted) ELSE reqs[r].maxCmds)
                                                   ELSE <<>>
                                              ELSE mine]
    /\ UNCHANGED <<files, dirReadable, request, summary, transcript, cmds, workspace, readAt, response,
                   decoded, text, outcome, sessions, accs, ui, inFlight, gateway, env>>

NoResponse == [status |-> 0, error |-> "", path |-> <<>>, content |-> <<>>]
NoWorkspace == <<>>

\* the transcript route, raw being the group txMatch[1] captured
QueryTranscriptOf(raw) ==
    LET bad == decodeURIComponent(raw) = URIError
        fp  == IF bad THEN NoLocation ELSE TranscriptFile(files, dirReadable, workspace, raw)
        f   == FileAt(files, workspace, fp)
    IN  /\ outcome' = IF bad THEN "URIError"
                      ELSE IF fp = NoLocation THEN "returned"
                      ELSE Outcome(TranscriptThrows(f))
        /\ readAt' = IF outcome' = "URIError" THEN readAt ELSE fp
        /\ response' = IF outcome' # "returned" THEN response
                       ELSE IF fp = NoLocation THEN NotFound
                       ELSE [NoResponse EXCEPT !.status = 200]
        /\ transcript' = IF outcome' = "returned" /\ fp # NoLocation THEN parseTranscript(f) ELSE transcript
        /\ request' = [NoRequest EXCEPT !.op = "transcriptOf", !.s = raw]
        /\ UNCHANGED <<files, dirReadable, summary, cmds, workspace, decoded, text, sessions, reqs, accs, ui, inFlight, gateway, env>>

\* sendJson(res, 404, { error: "Unknown route" }): no route of the listener
\* matches
UnknownRoute ==
    /\ outcome' = "returned"
    /\ readAt' = NoLocation
    /\ response' = [NotFound EXCEPT !.error = "Unknown route"]
    /\ request' = [NoRequest EXCEPT !.op = "unknownRoute"]
    /\ UNCHANGED <<files, dirReadable, summary, transcript, cmds, workspace, decoded, text, sessions, reqs, accs, ui, inFlight, gateway, env>>

\* res.writeHead(404); res.end("Not found"): a path outside /api/, answered
\* with a plain text
NotApi ==
    /\ outcome' = "returned"
    /\ readAt' = NoLocation
    /\ response' = [NoResponse EXCEPT !.status = 404, !.content = <<78, 111, 116, 32, 102, 111, 117, 110, 100>>]
    /\ request' = [NoRequest EXCEPT !.op = "notApi"]
    /\ UNCHANGED <<files, dirReadable, summary, transcript, cmds, workspace, decoded, text, sessions, reqs, accs, ui, inFlight, gateway, env>>

\* the request listener on GET url, for a request target in origin form.
\* new URL(req.url, "http://localhost") first takes away the code units up
\* to 32 at both ends and every tab and line break (cleaned); a target that
\* then starts with one slash, not followed by "/" or "\", keeps the host
\* of the base and only its path is parsed (PathState: rest is still to be
\* read, path are the segments kept, buffer is the segment being read). The
\* path ends at "?" or "#", "\" separates as "/" does, the segments "."
\* and ".." (also written %2e) are resolved, and the code units of the
\* path percent-encode set of the runtime, which leaves "^" as it is, are
\* written as the escaped octets of their UTF-8 form. Then the routes are
\* tried in the order of the source. A target of another form (empty,
\* without the leading slash, or with two separators in front, where a
\* host is parsed), the page itself (index.html) and the memory listing
\* (getMemory: directory stats and git log) are not part of the model, a
\* request for them is not taken
Get(url) ==
    LET inner   == {i \in 1..Len(url) : url[i] > 32}
        first   == IF inner = {} THEN 1 ELSE CHOOSE i \in inner : \A j \in inner : i <= j
        last    == IF inner = {} THEN 0 ELSE CHOOSE i \in inner : \A j \in inner : j <= i
        NoBreak(c) == c \notin {9, 10, 13}
        cleaned == SelectSeq(SubSeq(url, first, last), NoBreak)
        RECURSIVE PathState(_, _, _)
        PathState(rest, path, buffer) ==
            LET atEnd == rest = <<>> \/ rest[1] \in {63, 35}
                sep   == ~atEnd /\ rest[1] \in {Slash, 92}
                short == IF path = <<>> THEN path ELSE SubSeq(path, 1, Len(path) - 1)
                lower == [i \in 1..Len(buffer) |-> IF buffer[i] = 69 THEN 101 ELSE buffer[i]]
                SingleDot == lower \in {<<Dot>>, <<Percent, 50, 101>>}
                DoubleDot == lower \in {<<Dot, Dot>>, <<Dot, Percent, 50, 101>>, <<Percent, 50, 101, Dot>>,
                                        <<Percent, 50, 101, Percent, 50, 101>>}
                PathEncodeSet == (0..32) \cup {34, 35, 60, 62, 63, 96, 123, 125}
                kept  == IF DoubleDot THEN (IF sep THEN short ELSE Append(short, <<>>))
                         ELSE IF SingleDot THEN (IF sep THEN path ELSE Append(path, <<>>))
                         ELSE Append(path, buffer)
                c     == rest[1]
                pair  == IsHighSurrogate(c) /\ Len(rest) >= 2 /\ IsLowSurrogate(rest[2])
                unit  == IF pair THEN Utf8(65536 + (c - 55296) * 1024 + (rest[2] - 56320))
                         ELSE IF IsHighSurrogate(c) \/ IsLowSurrogate(c) THEN Utf8(65533)
                         ELSE IF c \in PathEncodeSet \/ c > 126 THEN Utf8(c)
                         ELSE <<c>>
            IN  IF atEnd THEN kept
                ELSE IF sep THEN PathState(Tail(rest), kept, <<>>)
                ELSE PathState(SubSeq(rest, IF pair THEN 3 ELSE 2, Len(rest)), path, buffer \o unit)
        pathname(segs) == Concat([i \in 1..Len(segs) |-> <<Slash>> \o segs[i]])
    IN  /\ cleaned # <<>> /\ cleaned[1] = Slash /\ (Len(cleaned) >= 2 => cleaned[2] \notin {Slash, 92})
        /\ \E p \in {pathname(PathState(Tail(cleaned), <<>>, <<>>))} :
              /\ p \notin {<<Slash>>, <<47, 105, 110, 100, 101, 120, 46, 104, 116, 109, 108>>}
              /\ IF ~StartsWith(p, <<47, 97, 112, 105, 47>>) THEN NotApi
                 ELSE \E route \in {SubSeq(p, 5, Len(p))} : \E tx \in {txMatch(route)} : \E mf \in {mfMatch(route)} :
                          IF route = <<47, 115, 101, 115, 115, 105, 111, 110, 115>> THEN QuerySessions
                          ELSE IF tx # NoMatch THEN QueryTranscriptOf(tx)
                          ELSE IF route = <<47, 99, 111, 109, 109, 97, 110, 100, 115>> THEN QueryCommands(20, 200)
                          ELSE IF route = <<47, 109, 101, 109, 111, 114, 121>> THEN FALSE
                          ELSE IF mf # NoMatch THEN QueryMemoryFile(mf)
                          ELSE UnknownRoute

NoResults ==
    /\ request = NoRequest
    /\ summary = Null
    /\ transcript = <<>>
    /\ cmds = <<>>
    /\ readAt = NoLocation
    /\ response = NoResponse
    /\ decoded = <<>>
    /\ text = <<>>
    /\ outcome = "none"
    /\ env = [HOME |-> UndefinedStr]
    /\ gateway = <<>>
    /\ inFlight = <<>>
    /\ ui = <<>>
    /\ accs = <<>>
    /\ reqs = <<>>
    /\ sessions = <<>>

-----------------------------------------------------------------------------
(* Session files the queries are run on *)

MaxRecords == 3

SeqsUpTo(S, n) == UNION {[1..k -> S] : k \in 0..n}

JsonLine(r)  == [kind |-> "json", value |-> r]
BlankLine    == [kind |-> "blank", value |-> NoRecord]
InvalidLine  == [kind |-> "invalid", value |-> NoRecord]
FalsyLine    == [kind |-> "falsy", value |-> NoRecord]
\* a name of the directory: stat says whether statSync answers for it (mt is
\* its mtimeMs then), readable whether readFileSync does (lines is its text)
FileOf(name, mt, lines) == [name |-> name, stat |-> TRUE, mt |-> mt, readable |-> TRUE, lines |-> lines]
Unreadable(name, mt)    == [name |-> name, stat |-> TRUE, mt |-> mt, readable |-> FALSE, lines |-> <<>>]
\* a name statSync raises for: a dangling symbolic link, a file removed
\* after the listing, any name of a directory that may not be searched
Dangling(name)          == [name |-> name, stat |-> FALSE, mt |-> 0, readable |-> FALSE, lines |-> <<>>]

NameA == <<97>> \o JsonlExt
NameB == <<98>> \o JsonlExt
NameC == <<99>> \o JsonlExt

\* records of a session log read by parseSessionSummary; the timestamps
\* are "9", "10", "1", "" and missing ("10" < "9" as strings)
SessionRec(ts) == [NoRecord EXCEPT !.type = "session", !.timestamp = ts, !.id = <<83, 49>>]
ModelChangeRec(ts, m, p) ==
    [NoRecord EXCEPT !.type = "model_change", !.timestamp = ts, !.modelId = m, !.provider = p]
CustomRec(ts, ct, d) == [NoRecord EXCEPT !.type = "custom", !.timestamp = ts, !.customType = ct, !.data = d]
DataOf(m, p) == [present |-> TRUE, modelId |-> m, provider |-> p]
MessageRec(ts, msg) == [NoRecord EXCEPT !.type = "message", !.timestamp = ts, !.message = msg]
UsageOf(i, o, c, t) == [NoUsage EXCEPT !.present = TRUE, !.input = i, !.output = o, !.cacheRead = c, !.totalTokens = t]
MessageOf(role, usage, content) ==
    [NoMessage EXCEPT !.present = TRUE, !.role = role, !.usage = usage, !.content = content]
StringContent(str) == [NoContent EXCEPT !.kind = "string", !.str = str]
ArrayContent(blocks) == [NoContent EXCEPT !.kind = "array", !.blocks = blocks]

SummaryRecords ==
    {SessionRec(UndefinedStr), SessionRec(<<49, 48>>), SessionRec(<<57>>)}
    \cup {[NoRecord EXCEPT !.type = "other", !.timestamp = <<>>],
          [NoRecord EXCEPT !.type = "other", !.timestamp = <<49>>]}
    \cup {ModelChangeRec(<<57>>, <<109, 49>>, <<112, 49>>),
          ModelChangeRec(UndefinedStr, <<109, 50>>, UndefinedStr),
          ModelChangeRec(<<49, 48>>, UndefinedStr, <<112, 50>>)}
    \cup {CustomRec(<<49>>, "model-snapshot", NoData),
          CustomRec(UndefinedStr, "model-snapshot", DataOf(<<109, 51>>, <<112, 51>>)),
          CustomRec(UndefinedStr, "model-snapshot", DataOf(UndefinedStr, <<112, 52>>)),
          CustomRec(UndefinedStr, "other", DataOf(<<109, 53>>, <<112, 53>>))}
    \cup {MessageRec(<<57>>, NoMessage),
          MessageRec(<<49, 48>>, MessageOf("user", NoUsage, StringContent(<<104, 105>>))),
          MessageRec(<<49>>, MessageOf("assistant", UsageOf(1, 2, UndefinedNum, 3), NoContent)),
          MessageRec(UndefinedStr, MessageOf("assistant", UsageOf(UndefinedNum, UndefinedNum, UndefinedNum, UndefinedNum), NoContent)),
          MessageRec(UndefinedStr, MessageOf("assistant", UsageOf(2, UndefinedNum, 4, UndefinedNum), NoContent)),
          [NoRecord EXCEPT !.type = "other", !.message = MessageOf("assistant", UsageOf(5, 5, 5, 5), NoContent)]}

SummaryLines == {JsonLine(r) : r \in SummaryRecords} \cup {BlankLine, InvalidLine}

SummaryFiles == {FileOf(NameA, 1, ls) : ls \in SeqsUpTo(SummaryLines, MaxRecords)} \cup {Unreadable(NameA, 1)}

InitSummary ==
    /\ files \in {<<f>> : f \in SummaryFiles}
    /\ dirReadable = TRUE
    /\ workspace = NoWorkspace
    /\ NoResults

NextSummary == \E i \in 1..Len(files) : QuerySummary(i)

SpecSummary == InitSummary /\ [][NextSummary]_vars

\* the decoded records of the file the last query read
Asked == parseJsonl(files[request.file])

-----------------------------------------------------------------------------
(* Properties of parseSessionSummary *)

\* C1: parseSessionSummary returns null for every file whose decoded record
\* sequence is empty or whose first decoded record has a type other than
\* "session", whatever the later records contain.
NoSummaryWithoutSessionHeader ==
    request.op = "summary" =>
        ((Asked = <<>> \/ Asked[1].type # "session") => summary = Null)

\* a null summary for a file that holds a session record, but not first
WitnessNoSummary ==
    /\ request.op = "summary"
    /\ summary = Null
    /\ Len(Asked) >= 2
    /\ Asked[1].type # "session"
    /\ \E i \in 2..Len(Asked) : Asked[i].type = "session"

\* a record that can set the model: a model_change record or a
\* custom/model-snapshot record
IsModelRecord(e) == e.type = "model_change" \/ (e.type = "custom" /\ e.customType = "model-snapshot")
ModelIdOf(e)  == IF e.type = "model_change" THEN e.modelId ELSE e.data.modelId
ProviderOf(e) == IF e.type = "model_change" THEN e.provider ELSE e.data.provider
LastIndex(S) == CHOOSE i \in S : \A j \in S : j <= i

\* C2 as stated: when the file holds a model_change or custom/model-snapshot
\* record, model and provider are the modelId and provider of the last one.
ModelIsLastModelRecord ==
    (request.op = "summary" /\ summary # Null) =>
        LET S == {i \in 1..Len(Asked) : IsModelRecord(Asked[i])}
        IN  S # {} => /\ summary.model = ModelIdOf(Asked[LastIndex(S)])
                      /\ summary.provider = ProviderOf(Asked[LastIndex(S)])

\* C2: model is the modelId of the last model_change or custom/model-snapshot
\* record that supplies a non-null modelId, and null when no record supplies
\* one; provider likewise, independently of model.
ModelIsLastSuppliedValue ==
    (request.op = "summary" /\ summary # Null) =>
        LET M == {i \in 1..Len(Asked) : IsModelRecord(Asked[i]) /\ ModelIdOf(Asked[i]) # UndefinedStr}
            P == {i \in 1..Len(Asked) : IsModelRecord(Asked[i]) /\ ProviderOf(Asked[i]) # UndefinedStr}
        IN  /\ summary.model = IF M = {} THEN UndefinedStr ELSE ModelIdOf(Asked[LastIndex(M)])
            /\ summary.provider = IF P = {} THEN UndefinedStr ELSE ProviderOf(Asked[LastIndex(P)])

\* the last model record supplies no modelId: model and provider come from
\* two different records
WitnessModelFromEarlierRecord ==
    /\ request.op = "summary"
    /\ summary # Null
    /\ LET S == {i \in 1..Len(Asked) : IsModelRecord(Asked[i])}
       IN  /\ Cardinality(S) >= 2
           /\ ModelIdOf(Asked[LastIndex(S)]) = UndefinedStr
           /\ summary.model # UndefinedStr
           /\ summary.provider = ProviderOf(Asked[LastIndex(S)])
           /\ summary.provider # UndefinedStr

\* the greatest timestamp of the records, by string comparison; missing
\* when no record has one
Timestamps(entries) == {entries[i].timestamp : i \in 1..Len(entries)} \ {UndefinedStr}
MaxTimestamp(entries) ==
    IF Timestamps(entries) = {} THEN UndefinedStr
    ELSE CHOOSE t \in Timestamps(entries) : \A u \in Timestamps(entries) : ~LexGreater(u, t)

\* C3: lastActivity is the maximum, by string comparison, of the timestamps
\* of all records of the file, the first record included, in whatever order
\* the records appear.
LastActivityIsMaxTimestamp ==
    (request.op = "summary" /\ summary # Null) => summary.lastActivity = MaxTimestamp(Asked)

\* C3, for the files whose first record has a timestamp
LastActivityIsMaxWhenHeaderTimed ==
    (request.op = "summary" /\ summary # Null /\ Asked[1].timestamp # UndefinedStr)
        => summary.lastActivity = MaxTimestamp(Asked)

RECURSIVE SumOver(_, _)
SumOver(vals, i) == IF i = 0 THEN 0 ELSE vals[i] + SumOver(vals, i - 1)
\* the sum of one usage counter over the message records that carry a usage
\* object, a missing counter counting as 0
UsageSum(entries, Field(_)) ==
    SumOver([i \in 1..Len(entries) |->
                IF entries[i].type = "message" /\ entries[i].message.present /\ entries[i].message.usage.present
                   /\ Field(entries[i].message.usage) # UndefinedNum
                THEN Field(entries[i].message.usage) ELSE 0], Len(entries))

\* C4: tokenUsage.input, output, cacheRead and total are the sums of
\* usage.input, usage.output, usage.cacheRead and usage.totalTokens over the
\* message records that carry a usage object, a missing field counting as 0.
TokenUsageIsSum ==
    (request.op = "summary" /\ summary # Null) =>
        /\ summary.tokenUsage.input = UsageSum(Asked, LAMBDA u : u.input)
        /\ summary.tokenUsage.output = UsageSum(Asked, LAMBDA u : u.output)
        /\ summary.tokenUsage.cacheRead = UsageSum(Asked, LAMBDA u : u.cacheRead)
        /\ summary.tokenUsage.total = UsageSum(Asked, LAMBDA u : u.totalTokens)

\* two messages with usage, one of them without cacheRead, next to a
\* message without usage
WitnessTokenUsage ==
    /\ request.op = "summary"
    /\ summary # Null
    /\ summary.tokenUsage.input = 3
    /\ summary.tokenUsage.cacheRead = 4
    /\ summary.tokenUsage.total = 3
    /\ summary.messageCount = 2

\* C21: the summary's messageCount is the number of records whose type is
\* "message", whether or not the record carries a message object, usage or
\* content.
MessageCountIsMessageRecords ==
    (request.op = "summary" /\ summary # Null) =>
        summary.messageCount = Cardinality({i \in 1..Len(Asked) : Asked[i].type = "message"})

\* a summary that counts a record without message object next to a message
\* with usage
WitnessCountsBareMessage ==
    /\ request.op = "summary"
    /\ summary # Null
    /\ summary.messageCount = 2
    /\ \E i \in 1..Len(Asked) : Asked[i].type = "message" /\ ~Asked[i].message.present
    /\ \E i \in 1..Len(Asked) : Asked[i].type = "message" /\ Asked[i].message.usage.present

-----------------------------------------------------------------------------
(* Session files read by parseTranscript *)

TextBlock(t) == [NoBlock EXCEPT !.type = "text", !.text = t]
ToolCallBlock(id, name, args) == [NoBlock EXCEPT !.type = "toolCall", !.toolCallId = id, !.toolName = name, !.args = args]
ToolResultBlock(id, name, content) ==
    [NoBlock EXCEPT !.type = "toolResult", !.toolCallId = id, !.toolName = name, !.content = content]
OtherBlock == [NoBlock EXCEPT !.type = "thinking"]

TranscriptRecords ==
    {ModelChangeRec(<<57>>, <<109, 49>>, <<112, 49>>),
     ModelChangeRec(UndefinedStr, UndefinedStr, UndefinedStr),
     SessionRec(<<49>>),
     MessageRec(<<49, 48>>, NoMessage),
     MessageRec(<<57>>, MessageOf("system", NoUsage, NoContent)),
     MessageRec(<<49, 48>>, MessageOf("user", NoUsage, StringContent(<<104, 105>>))),
     MessageRec(<<49>>, MessageOf("user", NoUsage, StringContent(<<32>>))),
     MessageRec(<<57>>, MessageOf("assistant", NoUsage, ArrayContent(<<>>))),
     MessageRec(<<49>>, MessageOf("assistant", NoUsage,
         ArrayContent(<<TextBlock(<<97>>), ToolCallBlock(<<116, 49>>, "exec", EmptyArgs)>>))),
     MessageRec(<<57>>, MessageOf("toolResult", NoUsage,
         ArrayContent(<<ToolResultBlock(<<116, 49>>, "exec", StringContent(<<111, 107>>)), TextBlock(<<32, 10>>)>>))),
     MessageRec(UndefinedStr, MessageOf("assistant", NoUsage,
         ArrayContent(<<ToolCallBlock(UndefinedStr, "read", NoArgs),
                        ToolResultBlock(UndefinedStr, "read",
                            ArrayContent(<<TextBlock(<<111>>), OtherBlock, TextBlock(UndefinedStr), TextBlock(<<107>>)>>)),
                        TextBlock(<<98>>)>>))),
     MessageRec(<<49>>, MessageOf("user", NoUsage, ArrayContent(<<TextBlock(UndefinedStr), OtherBlock>>)))}

TranscriptLines == {JsonLine(r) : r \in TranscriptRecords} \cup {BlankLine, InvalidLine}

TranscriptFiles == {FileOf(NameA, 1, ls) : ls \in SeqsUpTo(TranscriptLines, MaxRecords)} \cup {Unreadable(NameA, 1)}

InitTranscript ==
    /\ files \in {<<f>> : f \in TranscriptFiles}
    /\ dirReadable = TRUE
    /\ workspace = NoWorkspace
    /\ NoResults

NextTranscript == \E i \in 1..Len(files) : QueryTranscript(i)

SpecTranscript == InitTranscript /\ [][NextTranscript]_vars

-----------------------------------------------------------------------------
(* Properties of parseTranscript *)

\* the content blocks of record e, when it is a message with array content
BlocksOf(e) ==
    IF e.type = "message" /\ e.message.present /\ e.message.content.kind = "array"
    THEN e.message.content.blocks ELSE <<>>
HasStringContent(e) == e.type = "message" /\ e.message.present /\ e.message.content.kind = "string"
CountWhere(seq, P(_)) == Cardinality({i \in 1..Len(seq) : P(seq[i])})
BlockCount(entries, P(_)) ==
    Cardinality({u \in UNION {{<<r, b>> : b \in 1..Len(BlocksOf(entries[r]))} : r \in 1..Len(entries)} :
                    P(BlocksOf(entries[u[1]])[u[2]])})

\* C5 as stated: the number of entries equals the number of text, toolCall
\* and toolResult blocks across all message records plus one per
\* model_change record.
EntryCountIsBlockCount ==
    request.op = "transcript" =>
        Len(transcript) =
            BlockCount(Asked, LAMBDA b : b.type \in {"text", "toolCall", "toolResult"})
            + CountWhere(Asked, LAMBDA e : e.type = "model_change")

\* C5: the number of entries equals the number of message records with
\* string content, plus the number of text blocks with non-blank text,
\* toolCall blocks and toolResult blocks of the message records with array
\* content, plus one per model_change record.
EntryCountIsUnitCount ==
    request.op = "transcript" =>
        Len(transcript) =
            CountWhere(Asked, HasStringContent)
            + BlockCount(Asked,
                          LAMBDA b : \/ b.type \in {"toolCall", "toolResult"}
                                     \/ (b.type = "text" /\ b.text # UndefinedStr /\ ~IsBlank(b.text)))
            + CountWhere(Asked, LAMBDA e : e.type = "model_change")

\* a transcript of a file with a string message, a blank text block and
\* blocks that do count
WitnessEntryCount ==
    /\ request.op = "transcript"
    /\ CountWhere(Asked, HasStringContent) >= 1
    /\ BlockCount(Asked, LAMBDA b : b.type = "text" /\ b.text # UndefinedStr /\ IsBlank(b.text)) >= 1
    /\ BlockCount(Asked, LAMBDA b : b.type = "toolCall") >= 1
    /\ Len(transcript) >= 3

\* the units of the file that produce an entry: <<r, 0>> for a model_change
\* record or a string message, <<r, b>> for block b of message r
ProducesEntry(entries, u) ==
    LET e == entries[u[1]]
    IN  IF u[2] = 0 THEN e.type = "model_change" \/ HasStringContent(e)
        ELSE /\ e.type # "model_change"
             /\ u[2] <= Len(BlocksOf(e))
             /\ LET b == BlocksOf(e)[u[2]]
                IN  \/ b.type \in {"toolCall", "toolResult"}
                    \/ (b.type = "text" /\ b.text # UndefinedStr /\ ~IsBlank(b.text))
UnitsOf(entries) ==
    {u \in UNION {{<<r, b>> : b \in 0..Len(entries[r].message.content.blocks)} : r \in 1..Len(entries)} :
        ProducesEntry(entries, u)}
UnitBefore(u, v) == u[1] < v[1] \/ (u[1] = v[1] /\ u[2] < v[2])
UnitRank(entries, u) == Cardinality({v \in UnitsOf(entries) : UnitBefore(v, u)}) + 1

\* entry x is the one unit u produces
EntryFromUnit(x, entries, u) ==
    LET e == entries[u[1]]
    IN  /\ x.timestamp = CoalesceStr(e.timestamp, <<>>)
        /\ IF u[2] = 0
           THEN IF e.type = "model_change" THEN x.type = "model_change"
                ELSE x.type \in {"user", "assistant", "system"} /\ x.content = e.message.content.str
           ELSE LET b == BlocksOf(e)[u[2]]
                IN  CASE b.type = "text" -> x.type \in {"user", "assistant", "system"} /\ x.content = b.text
                      [] b.type = "toolCall" -> x.type = "tool_call" /\ x.toolName = b.toolName
                      [] b.type = "toolResult" -> x.type = "tool_result" /\ x.toolName = b.toolName

\* C6: parseTranscript keeps file order: the k-th entry comes from the k-th
\* producing unit of the file, counting records in file order and blocks in
\* message order, whatever the timestamps are.
TranscriptInFileOrder ==
    request.op = "transcript" =>
        \A u \in UnitsOf(Asked) :
            /\ UnitRank(Asked, u) \in 1..Len(transcript)
            /\ EntryFromUnit(transcript[UnitRank(Asked, u)], Asked, u)

\* a transcript that is sorted by timestamp in neither direction, with two
\* entries from the same message
WitnessOutOfTimestampOrder ==
    /\ request.op = "transcript"
    /\ \E i, j \in 1..Len(transcript) : i < j /\ LexGreater(transcript[i].timestamp, transcript[j].timestamp)
    /\ \E i, j \in 1..Len(transcript) : i < j /\ LexGreater(transcript[j].timestamp, transcript[i].timestamp)
    /\ \E r \in 1..Len(Asked) : Cardinality({u \in UnitsOf(Asked) : u[1] = r}) >= 2

-----------------------------------------------------------------------------
(* Sessions directories read by extractCommands *)

MaxCmdRecords == 3
MaxDirFiles == 2
MaxCap == 3

CommandRecords ==
    {MessageRec(<<57>>, MessageOf("assistant", NoUsage,
         ArrayContent(<<ToolCallBlock(<<116, 49>>, "exec", EmptyArgs),
                        ToolResultBlock(<<116, 49>>, "exec", StringContent(<<111, 107>>))>>))),
     MessageRec(<<49>>, MessageOf("assistant", NoUsage,
         ArrayContent(<<ToolCallBlock(<<116, 50>>, "read", NoArgs)>>))),
     MessageRec(<<49, 48>>, MessageOf("toolResult", NoUsage,
         ArrayContent(<<ToolResultBlock(<<116, 50>>, "read", StringContent(<<108, 97, 116, 101>>))>>))),
     MessageRec(UndefinedStr, MessageOf("assistant", NoUsage,
         ArrayContent(<<ToolCallBlock(UndefinedStr, "ls", EmptyArgs),
                        ToolCallBlock(<<116, 51>>, "cat", EmptyArgs),
                        ToolResultBlock(<<116, 51>>, "cat", ArrayContent(<<TextBlock(<<>>), OtherBlock>>)),
                        ToolCallBlock(<<116, 49>>, "grep", EmptyArgs),
                        ToolResultBlock(<<116, 49>>, "grep", StringContent(<<120>>)),
                        ToolCallBlock(<<116, 49>>, "find", EmptyArgs),
                        ToolResultBlock(<<116, 49>>, "find", ArrayContent(<<TextBlock(<<121>>)>>))>>)))}

CommandLines == {JsonLine(r) : r \in CommandRecords}

\* the k-th session file of a directory: a.jsonl, b.jsonl, ..., in readdir
\* order; a.jsonl is the oldest, the files after b.jsonl are as old as it
SlotName(k) == <<96 + k>> \o JsonlExt
SlotMtime(k) == IF k = 1 THEN 1 ELSE 2

\* files extractCommands must not read: a reset file and a file that is
\* no .jsonl file, both more recent than the session files
Decoys ==
    <<FileOf(<<97>> \o ResetMark \o <<49>> \o JsonlExt, 8,
             <<JsonLine(MessageRec(<<57, 57>>, MessageOf("assistant", NoUsage,
                   ArrayContent(<<ToolCallBlock(<<116, 57>>, "reset", EmptyArgs)>>))))>>),
      FileOf(<<110, 46, 116, 120, 116>>, 9,
             <<JsonLine(MessageRec(<<57, 57>>, MessageOf("assistant", NoUsage,
                   ArrayContent(<<ToolCallBlock(<<116, 57>>, "notes", EmptyArgs)>>))))>>)>>

\* the ways to cut n records into m consecutive files (files may be empty)
Cuts(n, m) == {c \in [0..m -> 0..n] : c[0] = 0 /\ c[m] = n /\ \A k \in 1..m : c[k - 1] <= c[k]}

\* the directories of at most MaxDirFiles session files that hold at most
\* MaxCmdRecords records together
CommandDirs ==
    {Decoys} \cup
    {<<FileOf(SlotName(1), 1, ls), Dangling(n)>> :
        ls \in SeqsUpTo(CommandLines, 1), n \in {SlotName(2), <<98>> \o ResetMark \o <<49>> \o JsonlExt}} \cup
    UNION {{[k \in 1..m |-> FileOf(SlotName(k), SlotMtime(k), SubSeq(ls, c[k - 1] + 1, c[k]))] \o Decoys :
               c \in Cuts(Len(ls), m)} :
           ls \in SeqsUpTo(CommandLines, MaxCmdRecords), m \in 1..MaxDirFiles}

InitCommands ==
    /\ \/ files \in CommandDirs /\ dirReadable = TRUE
       \/ files = <<>> /\ dirReadable = FALSE
    /\ workspace = NoWorkspace
    /\ NoResults

\* one query per run: extractCommands keeps nothing between two calls, so a
\* second query of the same directory reaches the states of a first one
NextCommands ==
    /\ request.op = "none"
    /\ \E maxFiles \in 1..MaxDirFiles, maxCmds \in 0..MaxCap : QueryCommands(maxFiles, maxCmds)

SpecCommands == InitCommands /\ [][NextCommands]_vars

-----------------------------------------------------------------------------
(* Properties of extractCommands *)

\* the positions <<f, r, b>> of the content blocks of the session files of
\* the directory: block b of record r of file f
SessionFileIndices == {f \in 1..Len(files) : IsSessionFile(files[f])}
RecordAt(f, r) == parseJsonl(files[f])[r]
BlockAt(p) == BlocksOf(RecordAt(p[1], p[2]))[p[3]]
BlockPositions ==
    UNION {UNION {{<<f, r, b>> : b \in 1..Len(BlocksOf(RecordAt(f, r)))} :
                     r \in 1..Len(parseJsonl(files[f]))} :
           f \in SessionFileIndices}
CallPositions   == {p \in BlockPositions : BlockAt(p).type = "toolCall"}
ResultPositions == {p \in BlockPositions : BlockAt(p).type = "toolResult"}
SameMessage(p, q) == p[1] = q[1] /\ p[2] = q[2]

\* C7: extractCommands never returns more entries than the cap maxCmds,
\* for any number of files and of tool calls per file.
CommandsWithinCap ==
    request.op = "commands" => Len(cmds) <= request.maxCmds

\* the cap reached although one file alone holds more calls than the cap
WitnessCapReached ==
    /\ request.op = "commands"
    /\ request.maxCmds > 0
    /\ Len(cmds) = request.maxCmds
    /\ \E f \in SessionFileIndices : Cardinality({p \in CallPositions : p[1] = f}) > request.maxCmds

\* C8: the sequence extractCommands returns is non-increasing by timestamp
\* string: no entry has a timestamp greater than the entry before it.
CommandsNewestFirst ==
    request.op = "commands" =>
        \A k \in 1..(Len(cmds) - 1) : ~LexGreater(cmds[k + 1].timestamp, cmds[k].timestamp)

\* a stream with two equal timestamps, an empty timestamp and a strict
\* descent, read from files that the scan met oldest first
WitnessTiesAndEmptyTimestamps ==
    /\ request.op = "commands"
    /\ Len(cmds) >= 3
    /\ \E k \in 1..(Len(cmds) - 1) : cmds[k].timestamp = cmds[k + 1].timestamp /\ cmds[k].timestamp # <<>>
    /\ \E k \in 1..(Len(cmds) - 1) : LexGreater(cmds[k].timestamp, cmds[k + 1].timestamp)
    /\ cmds[Len(cmds)].timestamp = <<>>
    /\ \E f \in SessionFileIndices : Len(parseJsonl(files[f])) >= 2
           /\ LexGreater(CoalesceStr(RecordAt(f, 2).timestamp, <<>>), CoalesceStr(RecordAt(f, 1).timestamp, <<>>))

\* the preview the message of toolCall block p holds for it: the truncated
\* text of its last toolResult block with the toolCallId of p, or ""
PreviewInMessage(p) ==
    LET R == {q \in ResultPositions : SameMessage(p, q) /\ BlockAt(q).toolCallId = BlockAt(p).toolCallId}
    IN  IF R = {} THEN <<>>
        ELSE truncate(ResultPreview(BlockAt(CHOOSE q \in R : \A o \in R : o[3] <= q[3])), 300)

\* entry c was made from the toolCall block at p
EntryOfCall(c, p) ==
    /\ c.sessionFile = files[p[1]].name
    /\ c.timestamp = CoalesceStr(RecordAt(p[1], p[2]).timestamp, <<>>)
    /\ c.toolName = BlockAt(p).toolName

\* C9: each Command Entry's resultPreview is the truncated text of the
\* toolResult block with the same toolCallId in the same message as its
\* toolCall, and "" when that message holds none; a result in another
\* message is never used.
PreviewFromSameMessage ==
    request.op = "commands" =>
        \A k \in 1..Len(cmds) :
            \E p \in CallPositions : EntryOfCall(cmds[k], p) /\ cmds[k].resultPreview = PreviewInMessage(p)

\* a stream with a matched entry and with an unmatched entry whose result
\* sits in another message of the same file
WitnessResultInOtherMessage ==
    /\ request.op = "commands"
    /\ \E k \in 1..Len(cmds) : cmds[k].resultPreview # <<>>
    /\ \E k \in 1..Len(cmds) : \E p \in CallPositions : \E q \in ResultPositions :
           /\ EntryOfCall(cmds[k], p)
           /\ cmds[k].resultPreview = <<>>
           /\ q[1] = p[1] /\ q[2] # p[2]
           /\ BlockAt(q).toolCallId = BlockAt(p).toolCallId
           /\ ResultPreview(BlockAt(q)) # <<>>

\* the directory holds one toolCall block and one toolResult block with
\* the same toolCallId and a non-empty text, every session file is scanned
\* and the cap leaves room for two entries
PairScenario ==
    /\ request.op = "commands"
    /\ dirReadable
    /\ ~StatRaises(files)
    /\ request.maxCmds >= 2
    /\ request.maxFiles >= Cardinality(SessionFileIndices)
    /\ Cardinality(CallPositions) = 1
    /\ Cardinality(ResultPositions) = 1
    /\ \A p \in CallPositions : \A q \in ResultPositions :
           /\ BlockAt(p).toolCallId = BlockAt(q).toolCallId
           /\ BlockAt(p).toolCallId # UndefinedStr
           /\ ResultPreview(BlockAt(q)) # <<>>
PairInOneMessage == \A p \in CallPositions : \A q \in ResultPositions : SameMessage(p, q)

\* C10 as stated: the pair in one message gives one entry with a non-empty
\* resultPreview; the pair split across two messages gives two entries,
\* each with an empty resultPreview.
SplitPairGivesTwoEntries ==
    PairScenario =>
        IF PairInOneMessage THEN Len(cmds) = 1 /\ cmds[1].resultPreview # <<>>
        ELSE Len(cmds) = 2 /\ \A k \in 1..Len(cmds) : cmds[k].resultPreview = <<>>

\* C10: the pair in one message gives one entry with a non-empty
\* resultPreview; the pair split across two messages gives one entry, for
\* the toolCall, with an empty resultPreview, and none for the toolResult.
SplitPairGivesOneUnmatchedEntry ==
    PairScenario =>
        /\ Len(cmds) = 1
        /\ \A p \in CallPositions : EntryOfCall(cmds[1], p)
        /\ IF PairInOneMessage THEN cmds[1].resultPreview # <<>> ELSE cmds[1].resultPreview = <<>>

\* the pair split across two messages, queried
WitnessSplitPair ==
    /\ PairScenario
    /\ ~PairInOneMessage
    /\ Len(cmds) = 1

\* the candidate files of the query, the entries cmds holds when the loop
\* over them is left (before the sort and the slice), and the candidates the
\* loop read before it was left
Candidates == CandidateFiles(files, request.maxFiles)
Emitted == ScanFiles(Candidates, <<>>, request.maxCmds)
TotalUpTo(k) == Len(Concat([i \in 1..k |-> FileCommands(Candidates[i])]))
ScannedFiles == {i \in 1..Len(Candidates) : \A j \in 1..(i - 1) : TotalUpTo(j) < request.maxCmds}
ScannedCalls == {p \in CallPositions : \E i \in ScannedFiles : files[p[1]].name = Candidates[i].name}

\* C11: before the cap is applied, extractCommands holds exactly one entry
\* for every toolCall block of every message of the scanned files, whether
\* the toolCallId of the block is distinct, repeated in its message or absent.
EveryToolCallEmitted ==
    (request.op = "commands" /\ dirReadable) => Len(Emitted) = Cardinality(ScannedCalls)

\* the entries of every candidate file, the loop over the files never left
AllEntries == Concat([i \in 1..Len(Candidates) |-> FileCommands(Candidates[i])])
FirstN(s, n) == SubSeq(s, 1, IF Len(s) < n THEN Len(s) ELSE n)

\* C12: leaving the loop over the files once cmds holds maxCmds entries does
\* not change the result: the stream returned is the one obtained by reading
\* every candidate file within the file limit, sorting all the entries by
\* timestamp descending and keeping the first maxCmds.
EarlyStopKeepsResult ==
    (request.op = "commands" /\ dirReadable) =>
        cmds = FirstN(SortByTimestamp(AllEntries), request.maxCmds)

-----------------------------------------------------------------------------
(* Memory-file requests *)

MaxSegments == 4

MemorySegments == {<<>>, <<Dot>>, ParentRef, <<98, 117, 103, 115>>, <<115, 101, 99, 114, 101, 116>>, <<97, 46, 109, 100>>}
NamedPaths == {<<46, 46, 47, 115, 101, 99, 114, 101, 116>>, <<47, 101, 116, 99, 47, 112, 97, 115, 115, 119, 100>>, <<117, 110, 107, 110, 111, 119, 110, 68, 105, 114, 47, 102, 105, 108, 101, 46, 116, 120, 116>>}

\* the requested paths: up to MaxSegments segments joined by the separator
\* (the route pattern (.+) takes no empty path), and the three named ones
MemoryPaths == ({Join(ss) : ss \in SeqsUpTo(MemorySegments, MaxSegments)} \ {<<>>}) \cup NamedPaths

\* files inside a memory directory, and files elsewhere on the machine
InsideFiles == {join(WORKSPACE_DIR, <<98, 117, 103, 115, 47, 97, 46, 109, 100>>), join(WORKSPACE_DIR, <<98, 117, 103, 115, 47, 115, 101, 99, 114, 101, 116>>)}
OutsideFiles ==
    {join(WORKSPACE_DIR, <<115, 101, 99, 114, 101, 116>>), join(WORKSPACE_DIR, <<97, 46, 109, 100>>),
     join(WORKSPACE_DIR, <<117, 110, 107, 110, 111, 119, 110, 68, 105, 114, 47, 102, 105, 108, 101, 46, 116, 120, 116>>), join(WORKSPACE_DIR, <<46, 46, 47, 115, 101, 99, 114, 101, 116>>),
     <<47, 101, 116, 99, 47, 112, 97, 115, 115, 119, 100>>, <<47, 115, 101, 99, 114, 101, 116>>, <<47, 98, 117, 103, 115, 47, 97, 46, 109, 100>>}

\* every file holds its own location, so that a content tells which file
\* was read (every choice of files with HOME unset, all of them otherwise)
Workspaces == {[loc \in S |-> loc] : S \in {{}, InsideFiles, OutsideFiles, InsideFiles \cup OutsideFiles}}

\* the groups the route pattern /memory/file/(.+) captures on the parsed
\* path: encodeURIComponent(fp), as the UI sends a path (part_003:86), one
\* written with a literal separator, and groups that do not decode. A group
\* that is a "." or ".." segment is none: the URL parser resolves it, and
\* the path left is not one of this route
BrokenRoutes == {<<37>>, <<98, 117, 103, 115, 37, 50, 70, 97, 46, 109, 100, 37>>, <<98, 117, 103, 115, 47, 37, 122, 122>>,
                 <<37, 102, 102>>, <<98, 117, 103, 115, 47, 37, 67, 51>>}
MemoryRoutes ==
    ({encodeURIComponent(fp) : fp \in MemoryPaths} \cup BrokenRoutes \cup {<<98, 117, 103, 115, 47, 97, 46, 109, 100>>})
        \ {<<Dot>>, ParentRef}

\* the values of HOME in the environment of the server
Environments == {[HOME |-> h] : h \in {UndefinedStr, <<47, 114, 111, 111, 116>>, <<>>}}

\* a memory-file request is on its way, the group of its route in request.s
InitMemory ==
    /\ env \in Environments
    /\ files = <<>>
    /\ dirReadable = TRUE
    /\ workspace \in IF env.HOME = UndefinedStr THEN Workspaces
                     ELSE {[loc \in InsideFiles \cup OutsideFiles |-> loc]}
    /\ request \in {[NoRequest EXCEPT !.s = raw] : raw \in MemoryRoutes}
    /\ summary = Null
    /\ transcript = <<>>
    /\ cmds = <<>>
    /\ readAt = NoLocation
    /\ response = NoResponse
    /\ decoded = <<>>
    /\ text = <<>>
    /\ outcome = "none"
    /\ gateway = <<>>
    /\ inFlight = <<>>
    /\ ui = <<>>
    /\ accs = <<>>
    /\ reqs = <<>>
    /\ sessions = <<>>

NextMemory == request.op = "none" /\ QueryMemoryFile(request.s)

SpecMemory == InitMemory /\ [][NextMemory]_vars

\* the segments of a path, and its non-empty segments
HasParentRef(p) == \E i \in 1..Len(Split(p)) : Split(p)[i] = ParentRef
Components(p) == SelectSeq(Split(p), LAMBDA seg : seg # <<>>)

\* C13 as stated: the three named paths are rejected, and content is
\* returned only for requested paths whose first segment is a recognized
\* subdirectory name and which hold no parent-traversal segment anywhere.
ContentOnlyForPlainMemoryPaths ==
    request.op = "memoryFile" =>
        /\ request.path \in NamedPaths => response = NotFound
        /\ response.status = 200 =>
               Split(request.path)[1] \in MEMORY_DIRS /\ ~HasParentRef(request.path)

\* what getMemoryFile does keep to: the three named paths are rejected, and
\* content is returned only for requested paths whose normalized form has a
\* recognized subdirectory name as first segment and holds no
\* parent-traversal segment
ContentOnlyForNormalizedMemoryPaths ==
    request.op = "memoryFile" =>
        /\ request.path \in NamedPaths => response = NotFound
        /\ response.status = 200 =>
               Split(normalize(request.path))[1] \in MEMORY_DIRS /\ ~HasParentRef(normalize(request.path))

\* the location is one of the recognized memory subdirectories of the
\* workspace root, or lies below one
InMemoryDir(loc) ==
    LET segs == Components(loc)
        root == Components(WORKSPACE_DIR)
    IN  /\ Len(segs) > Len(root)
        /\ SubSeq(segs, 1, Len(root)) = root
        /\ segs[Len(root) + 1] \in MEMORY_DIRS
        /\ \A i \in 1..Len(segs) : segs[i] \notin {ParentRef, <<Dot>>}
StrictlyInMemoryDir(loc) == InMemoryDir(loc) /\ Len(Components(loc)) > Len(Components(WORKSPACE_DIR)) + 1

\* C14 as stated: for every requested path built from name, ".", ".." and
\* separator segments, the memory-file query reads only a location strictly
\* inside one of the recognized memory subdirectories of the workspace root.
ReadsStrictlyInsideMemoryDir ==
    (request.op = "memoryFile" /\ readAt # NoLocation) => StrictlyInMemoryDir(readAt)

\* C14: for every such path the location the memory-file query hands to
\* readFileSync is a recognized memory subdirectory of the workspace root or
\* lies inside one; it is never the workspace root, a sibling directory or
\* anything above the root, and the content returned is the content of
\* that location.
ReadsWithinMemoryDir ==
    request.op = "memoryFile" =>
        /\ readAt # NoLocation => InMemoryDir(readAt)
        /\ response.status = 200 => InMemoryDir(readAt) /\ response.content = workspace[readAt]

\* a path through a parent-traversal segment that ends on the memory
\* subdirectory itself, while files exist outside the memory directories
WitnessReadsMemoryDirItself ==
    /\ request.op = "memoryFile"
    /\ HasParentRef(request.path)
    /\ readAt = join(WORKSPACE_DIR, <<98, 117, 103, 115>>)
    /\ DOMAIN workspace # {}

\* C15: a path that is rejected (absolute, parent-escaping or with an
\* unrecognized first segment) is answered with exactly the not-found
\* response an allowed path gets when its file does not exist.
SameAnswerForEveryFailure ==
    (request.op = "memoryFile" /\ outcome = "returned" /\ (readAt = NoLocation \/ readAt \notin DOMAIN workspace)) =>
        response = NotFound

\* an absolute path rejected although the file it names exists
WitnessRejectedExistingFile ==
    /\ request.op = "memoryFile"
    /\ isAbsolute(request.path)
    /\ request.path \in DOMAIN workspace
    /\ readAt = NoLocation
    /\ response = NotFound

-----------------------------------------------------------------------------
(* parseJsonl on files of every kind of line *)

DecodeLines ==
    {JsonLine(SessionRec(<<49>>)), JsonLine([NoRecord EXCEPT !.type = "other"]),
     BlankLine, InvalidLine, FalsyLine}
DecodeFiles == {FileOf(NameA, 1, ls) : ls \in SeqsUpTo(DecodeLines, MaxRecords)} \cup {Unreadable(NameA, 1)}

InitDecode ==
    /\ files \in {<<f>> : f \in DecodeFiles}
    /\ dirReadable = TRUE
    /\ workspace = NoWorkspace
    /\ NoResults

NextDecode == \E i \in 1..Len(files) : Decode(i)

SpecDecode == InitDecode /\ [][NextDecode]_vars

\* decoded holds, in line order, the values of the lines of the file read
\* whose index is in K
DecodedAre(K) ==
    /\ Len(decoded) = Cardinality(K)
    /\ \A i \in K : decoded[Cardinality({j \in K : j <= i})] = files[request.file].lines[i].value

\* C16 as stated: parseJsonl returns, in line order, one record for each
\* non-blank line that parses as JSON, drops the other lines, and returns
\* the empty sequence for an unreadable file.
DecodesEveryJsonLine ==
    request.op = "decode" =>
        LET f == files[request.file]
        IN  IF ~f.readable THEN decoded = <<>>
            ELSE DecodedAre({i \in 1..Len(f.lines) : f.lines[i].kind \in {"json", "falsy"}})

\* C16: parseJsonl never fails: it returns, in line order, one record for
\* each non-blank line that parses as JSON to a truthy value, drops every
\* other line (blank, not parsing, or parsing to null, false, 0 or "")
\* without affecting the lines after it, and returns the empty sequence for
\* an unreadable file.
DecodesEveryTruthyJsonLine ==
    request.op = "decode" =>
        /\ outcome = "returned"
        /\ LET f == files[request.file]
           IN  IF ~f.readable THEN decoded = <<>>
               ELSE DecodedAre({i \in 1..Len(f.lines) : f.lines[i].kind = "json"})

\* a record decoded from a line that follows a line that does not parse and
\* a line that parses to a falsy value
WitnessDecodedAfterBadLines ==
    /\ request.op = "decode"
    /\ Len(decoded) >= 1
    /\ \E i, j, k \in 1..Len(files[request.file].lines) :
           /\ i < k /\ j < k
           /\ files[request.file].lines[i].kind = "invalid"
           /\ files[request.file].lines[j].kind = "falsy"
           /\ files[request.file].lines[k].kind = "json"

-----------------------------------------------------------------------------
(* Session files with null and wrongly typed values *)

FaultyRecords ==
    {SessionRec(<<49>>),
     [NoRecord EXCEPT !.type = "message"],
     MessageRec(<<50>>, MessageOf("assistant", NoUsage, NoContent)),
     MessageRec(<<51>>, MessageOf("assistant", NoUsage,
         ArrayContent(<<ToolCallBlock(<<116, 49>>, "exec", EmptyArgs)>>))),
     MessageRec(<<52>>, MessageOf("assistant", NoUsage, ArrayContent(<<NullBlock>>))),
     MessageRec(<<53>>, MessageOf("toolResult", NoUsage,
         ArrayContent(<<ToolResultBlock(<<116, 49>>, "exec", ArrayContent(<<NullBlock>>))>>))),
     MessageRec(<<54>>, MessageOf("user", NoUsage, ArrayContent(<<TextBlock(NumberStr)>>)))}
FaultyFiles == {FileOf(NameA, 1, ls) : ls \in SeqsUpTo({JsonLine(r) : r \in FaultyRecords}, MaxRecords)}

InitFaulty ==
    /\ files \in {<<f>> : f \in FaultyFiles}
    /\ dirReadable = TRUE
    /\ workspace = NoWorkspace
    /\ NoResults

NextFaulty ==
    \/ \E i \in 1..Len(files) : QuerySummary(i)
    \/ \E i \in 1..Len(files) : QueryTranscript(i)
    \/ QueryCommands(1, MaxCap)

SpecFaulty == InitFaulty /\ [][NextFaulty]_vars

\* C17: nothing in the core is fatal: for every sequence of decoded records,
\* also with records, messages and content blocks whose fields are missing,
\* null or of the wrong type, the summarizer, the transcript builder and the
\* command extractor return a view and never raise an error that aborts the
\* query.
NothingIsFatal ==
    request.op \in {"summary", "transcript", "commands"} => outcome = "returned"

-----------------------------------------------------------------------------
(* truncate, alone and in the views *)

MaxLen == 4
MaxLimit == 3

Ellipsis == 8230
TruncateInputs == SeqsUpTo({97, Ellipsis}, MaxLen)

\* a session whose message holds texts as long as the limits of the views
\* (2000, 1000, 500, 300, 200) plus extra characters
LongText(n) == [i \in 1..n |-> 97]
LongFile(extra) ==
    FileOf(NameA, 1,
        <<JsonLine(SessionRec(<<49>>)),
          JsonLine(MessageRec(<<50>>, MessageOf("user", NoUsage, StringContent(LongText(2000 + extra))))),
          JsonLine(MessageRec(<<51>>, MessageOf("assistant", NoUsage,
              ArrayContent(<<TextBlock(LongText(2000 + extra)),
                             ToolCallBlock(<<116, 49>>, "sessions_spawn",
                                           ArgsOf(<<Member(TaskKey, LongText(1000 + extra))>>)),
                             ToolResultBlock(<<116, 49>>, "sessions_spawn",
                                             StringContent(LongText(500 + extra)))>>))))>>)

InitTruncate ==
    /\ files \in {<<LongFile(extra)>> : extra \in 0..1}
    /\ dirReadable = TRUE
    /\ workspace = NoWorkspace
    /\ request = NoRequest
    /\ summary = Null
    /\ transcript = <<>>
    /\ cmds = <<>>
    /\ readAt = NoLocation
    /\ response = NoResponse
    /\ decoded = <<>>
    /\ text \in TruncateInputs
    /\ outcome = "none"
    /\ env = [HOME |-> UndefinedStr]
    /\ gateway = <<>>
    /\ inFlight = <<>>
    /\ ui = <<>>
    /\ accs = <<>>
    /\ reqs = <<>>
    /\ sessions = <<>>

NextTruncate ==
    \/ \E max \in 0..MaxLimit : Truncate(max)
    \/ QuerySummary(1)
    \/ QueryTranscript(1)
    \/ QueryCommands(1, 1)

SpecTruncate == InitTruncate /\ [][NextTruncate]_vars

\* C18: truncate is idempotent for a fixed limit N: a string of length at
\* most N is returned unchanged, and truncating with N the result of a
\* truncation with N returns that result unchanged.
TruncateIdempotent ==
    /\ [](request.op = "truncate" /\ Len(request.s) <= request.max => text = request.s)
    /\ [][(request.op = "truncate" /\ request'.op = "truncate" /\ request'.max = request.max)
              => text' = text]_vars

\* a string longer than the limit, made by an earlier truncation with the
\* same limit, truncated again
WitnessTruncatedTwice ==
    /\ request.op = "truncate"
    /\ request.max >= 1
    /\ Len(request.s) = request.max + 1
    /\ request.s[Len(request.s)] = Ellipsis
    /\ text = request.s

\* C19: for every string longer than N, truncate returns exactly its first
\* N characters followed by a one-character ellipsis marker, so every
\* truncated field of a view has length at most its limit plus one.
TruncatedToLimitPlusMarker ==
    /\ (request.op = "truncate" /\ Len(request.s) > request.max) =>
           /\ Len(text) = request.max + 1
           /\ \A i \in 1..request.max : text[i] = request.s[i]
           /\ text[request.max + 1] = Ellipsis
    /\ summary # Null => \A i \in 1..Len(summary.subAgents) : Len(summary.subAgents[i].task) <= 200 + 1
    /\ \A i \in 1..Len(transcript) :
           /\ Len(transcript[i].content) <= 2000 + 1
           /\ Len(transcript[i].toolArgs) <= 1000 + 1
           /\ Len(transcript[i].result) <= 500 + 1
    /\ \A i \in 1..Len(cmds) : Len(cmds[i].args) <= 500 + 1 /\ Len(cmds[i].resultPreview) <= 300 + 1

\* a string cut to its limit, and views whose fields were cut to theirs
WitnessFieldsAtLimitPlusOne ==
    /\ request.op = "truncate"
    /\ Len(request.s) > request.max + 1
    /\ summary # Null /\ \E i \in 1..Len(summary.subAgents) : Len(summary.subAgents[i].task) = 201
    /\ \E i \in 1..Len(transcript) : Len(transcript[i].content) = 2001
    /\ \E i \in 1..Len(transcript) : Len(transcript[i].toolArgs) = 1001
    /\ \E i \in 1..Len(transcript) : Len(transcript[i].result) = 501
    /\ \E i \in 1..Len(cmds) : Len(cmds[i].args) = 501 /\ Len(cmds[i].resultPreview) = 301

-----------------------------------------------------------------------------
(* Session files whose messages name channels *)

ChannelOf(msg, ch) == [msg EXCEPT !.channel = ch]
PlainMessage == MessageOf("user", NoUsage, StringContent(<<104, 105>>))
ChannelRecords ==
    {SessionRec(<<49>>),
     MessageRec(<<50>>, NoMessage),
     MessageRec(<<51>>, PlainMessage),
     MessageRec(<<52>>, ChannelOf(PlainMessage, <<>>)),
     MessageRec(<<53>>, ChannelOf(PlainMessage, <<99, 49>>)),
     MessageRec(<<54>>, ChannelOf(PlainMessage, <<99, 50>>)),
     [NoRecord EXCEPT !.type = "other", !.message = ChannelOf(PlainMessage, <<99, 51>>)]}
ChannelFiles == {FileOf(NameA, 1, ls) : ls \in SeqsUpTo({JsonLine(r) : r \in ChannelRecords}, MaxRecords)}

InitChannel ==
    /\ files \in {<<f>> : f \in ChannelFiles}
    /\ dirReadable = TRUE
    /\ workspace = NoWorkspace
    /\ NoResults

NextChannel == \E i \in 1..Len(files) : QuerySummary(i)

SpecChannel == InitChannel /\ [][NextChannel]_vars

\* the message records of the file read whose message.channel is truthy
WithChannel ==
    {i \in 1..Len(Asked) : /\ Asked[i].type = "message"
                           /\ Asked[i].message.present
                           /\ TruthyStr(Asked[i].message.channel)}

\* C20: the summary's channel is the channel of the first message record,
\* in file order, whose message.channel is truthy; a later message never
\* overwrites it, and it is null when no message has one.
ChannelIsFirstTruthy ==
    (request.op = "summary" /\ summary # Null) =>
        IF WithChannel = {} THEN summary.channel = UndefinedStr
        ELSE summary.channel = Asked[CHOOSE i \in WithChannel : \A j \in WithChannel : i <= j].message.channel

\* a summary whose channel comes from a message that precedes a message
\* with another channel
WitnessChannelKept ==
    /\ request.op = "summary"
    /\ summary # Null
    /\ \E j, k \in 1..Len(Asked) :
           /\ j < k
           /\ j \in WithChannel /\ k \in WithChannel
           /\ Asked[j].message.channel # Asked[k].message.channel
           /\ summary.channel = Asked[j].message.channel

-----------------------------------------------------------------------------
(* Records parseTranscript passes over *)

\* a record that is neither a message nor a model_change, or a message whose
\* content is neither a string nor an array
Inert(e) ==
    \/ e.type \notin {"message", "model_change"}
    \/ e.type = "message" /\ e.message.present /\ e.message.content.kind \notin {"string", "array"}
InertLine(l) == LineDecodes(l) /\ Inert(l.value)
KeepsLine(l) == ~InertLine(l)
WithoutInert(f) == [f EXCEPT !.lines = SelectSeq(f.lines, KeepsLine)]

\* C23: in parseTranscript, a record that is neither a message nor a
\* model_change, and a message whose content is neither a string nor an
\* array, contributes no entry and leaves the entries produced for every
\* other record unchanged: the transcript of a file is the transcript of the
\* file without these records.
InertRecordsLeaveTranscriptAlone ==
    (request.op = "transcript" /\ outcome = "returned") =>
        LET f == files[request.file]
        IN  /\ transcript = parseTranscript(WithoutInert(f))
            /\ (\A i \in 1..Len(f.lines) : ~KeepsLine(f.lines[i])) => transcript = <<>>

\* a transcript of two records' entries with both kinds of passed-over
\* record in the file, one of them between the two
WitnessInertBetween ==
    /\ request.op = "transcript"
    /\ outcome = "returned"
    /\ Len(Asked) = 3
    /\ ~Inert(Asked[1]) /\ Inert(Asked[2]) /\ ~Inert(Asked[3])
    /\ Asked[2].type = "message"
    /\ Len(transcript) >= 2

-----------------------------------------------------------------------------
(* Session files whose messages spawn sub-agents *)

\* args written with the keys task, message and model in that order, a
\* missing value standing for a key left out
SpawnArgs(task, message, model) ==
    ArgsOf(SelectSeq(<<Member(TaskKey, task), Member(MessageKey, message), Member(ModelKey, model)>>,
                     LAMBDA m : m.val # UndefinedStr))
\* {"model": "a\"b\n", "cwd": "\\"} and {"task": null, "message": null}
QuotedModelArgs == ArgsOf(<<Member(ModelKey, <<97, 34, 98, 10>>), Member(<<99, 119, 100>>, <<92>>)>>)
NullTaskArgs    == ArgsOf(<<Member(TaskKey, NullArg), Member(MessageKey, NullArg)>>)
\* {"b": "x", "10": "a", "2": "b", "01": "d"}, serialized with 2 and 10 first
IndexedArgs     == ArgsOf(<<Member(<<98>>, <<120>>), Member(<<49, 48>>, <<97>>),
                            Member(<<50>>, <<98>>), Member(<<48, 49>>, <<100>>)>>)
SpawnRecords ==
    {SessionRec(<<49>>), SessionRec(UndefinedStr),
     ModelChangeRec(<<55>>, <<109, 49>>, <<112, 49>>),
     MessageRec(<<50>>, MessageOf("user", NoUsage, StringContent(<<104, 105>>))),
     MessageRec(<<53>>, MessageOf("assistant", NoUsage,
         ArrayContent(<<ToolCallBlock(<<116, 49>>, "sessions_spawn", SpawnArgs(<<103, 111>>, <<104, 105>>, UndefinedStr)),
                        ToolCallBlock(<<116, 50>>, "exec", SpawnArgs(<<120>>, UndefinedStr, UndefinedStr)),
                        ToolCallBlock(<<116, 51>>, "subagents", SpawnArgs(UndefinedStr, <<104, 105>>, <<109>>))>>))),
     MessageRec(UndefinedStr, MessageOf("assistant", NoUsage,
         ArrayContent(<<ToolCallBlock(<<116, 52>>, "subagents", NoArgs)>>))),
     MessageRec(UndefinedStr, MessageOf("assistant", NoUsage,
         ArrayContent(<<ToolCallBlock(<<116, 53>>, "sessions_spawn", SpawnArgs(UndefinedStr, UndefinedStr, <<109>>))>>))),
     MessageRec(<<57>>, MessageOf("assistant", NoUsage,
         ArrayContent(<<ToolCallBlock(<<116, 54>>, "sessions_spawn", SpawnArgs(LongText(201), UndefinedStr, UndefinedStr))>>))),
     MessageRec(<<54>>, MessageOf("assistant", NoUsage,
         ArrayContent(<<ToolCallBlock(<<116, 55>>, "subagents", QuotedModelArgs),
                        ToolCallBlock(<<116, 56>>, "sessions_spawn", NullTaskArgs),
                        ToolCallBlock(<<116, 57>>, "subagents", IndexedArgs)>>)))}
SpawnFiles == {FileOf(NameA, 1, ls) : ls \in SeqsUpTo({JsonLine(r) : r \in SpawnRecords}, MaxRecords)}

InitSpawn ==
    /\ files \in {<<f>> : f \in SpawnFiles}
    /\ dirReadable = TRUE
    /\ workspace = NoWorkspace
    /\ NoResults

NextSpawn == \E i \in 1..Len(files) : QuerySummary(i)

SpecSpawn == InitSpawn /\ [][NextSpawn]_vars

\* the positions <<r, b>> of the spawning toolCall blocks of the file read,
\* and the rank of one of them in file order
SpawnUnits ==
    {u \in UnitsOf(Asked) :
        /\ u[2] >= 1
        /\ u[2] <= Len(BlocksOf(Asked[u[1]]))
        /\ BlocksOf(Asked[u[1]])[u[2]].type = "toolCall"
        /\ BlocksOf(Asked[u[1]])[u[2]].toolName \in {"sessions_spawn", "subagents"}}
SpawnRank(u) == Cardinality({v \in SpawnUnits : v = u \/ UnitBefore(v, u)})

\* the task of a spawning block
TaskOf(b) ==
    LET a == IF b.args.present THEN b.args ELSE EmptyArgs
        given(k) == ArgGet(a, k) # UndefinedStr /\ ArgGet(a, k) # NullArg
        t == IF given(TaskKey) THEN ArgGet(a, TaskKey)
             ELSE IF given(MessageKey) THEN ArgGet(a, MessageKey)
             ELSE JsonStringify(a)
    IN  IF Len(t) <= 200 THEN t ELSE SubSeq(t, 1, 200) \o <<Ellipsis>>

\* lastActivity of the summary of the file cut after its record r
LastActivityUpTo(r) ==
    parseSessionSummary([files[request.file] EXCEPT !.lines = [i \in 1..r |-> JsonLine(Asked[i])]]).lastActivity

\* C22: the summary's subAgents list holds, in file order, exactly one
\* element per toolCall block named sessions_spawn or subagents; its task is
\* args.task, else args.message, else the serialized argument object,
\* truncated to 200 characters, and its timestamp is the record's own
\* timestamp or, when the record has none, the running lastActivity at that
\* point of the fold.
SubAgentsAreSpawnCalls ==
    (request.op = "summary" /\ summary # Null) =>
        /\ Len(summary.subAgents) = Cardinality(SpawnUnits)
        /\ \A u \in SpawnUnits :
               /\ summary.subAgents[SpawnRank(u)].task = TaskOf(BlocksOf(Asked[u[1]])[u[2]])
               /\ summary.subAgents[SpawnRank(u)].timestamp =
                      IF Asked[u[1]].timestamp # UndefinedStr THEN Asked[u[1]].timestamp
                      ELSE LastActivityUpTo(u[1])

\* a summary with three sub-agents, one of them from a record without
\* timestamp and without arguments
WitnessSubAgents ==
    /\ request.op = "summary"
    /\ summary # Null
    /\ Len(summary.subAgents) = 3
    /\ \E k \in 1..3 : summary.subAgents[k].task = <<123, 125>>
                       /\ summary.subAgents[k].timestamp = <<53>>

-----------------------------------------------------------------------------
(* Sessions directories the sessions query is run on *)

MaxSessionFiles == 3

\* what a session file may hold: a header with a timestamp, a header without
\* one, a header without one followed by a timed message, nothing
SessionContents ==
    {<<JsonLine(SessionRec(<<49>>))>>,
     <<JsonLine(SessionRec(<<50>>))>>,
     <<JsonLine(SessionRec(UndefinedStr))>>,
     <<JsonLine(SessionRec(UndefinedStr)),
       JsonLine(MessageRec(<<51>>, MessageOf("user", NoUsage, StringContent(<<104, 105>>))))>>,
     <<>>}
SessionName(i) == <<48 + (i \div 10), 48 + (i % 10)>> \o JsonlExt
SessionKinds ==
    {[stat |-> TRUE, readable |-> TRUE, lines |-> c] : c \in SessionContents}
    \cup {[stat |-> TRUE, readable |-> FALSE, lines |-> <<>>], [stat |-> FALSE, readable |-> FALSE, lines |-> <<>>]}
SessionDirs ==
    UNION {{[i \in 1..n |-> [name |-> SessionName(i), stat |-> c[i].stat, mt |-> IF c[i].stat THEN m[i] ELSE 0,
                             readable |-> c[i].readable, lines |-> c[i].lines]] :
                c \in [1..n -> SessionKinds], m \in [1..n -> 1..2]} :
           n \in 0..MaxSessionFiles}
\* directories with as many files as the cap and more
CrowdedDirs ==
    {[i \in 1..n |-> FileOf(SessionName(i), i, <<JsonLine(SessionRec(<<49 + (i % 3)>>))>>)] :
        n \in SessionsCap..(SessionsCap + 1)}
    \cup {[i \in 1..(SessionsCap + 1) |->
              IF i = 1 THEN Dangling(SessionName(99))
              ELSE FileOf(SessionName(i), i, <<JsonLine(SessionRec(<<49 + (i % 3)>>))>>)]}

InitSessions ==
    /\ files \in SessionDirs \cup CrowdedDirs
    /\ dirReadable \in BOOLEAN
    /\ workspace = NoWorkspace
    /\ NoResults

NextSessions == QuerySessions

SpecSessions == InitSessions /\ [][NextSessions]_vars

\* the summaries of the files the query parses, in the order it parses them
ParsedSummaries ==
    IF ~dirReadable THEN <<>>
    ELSE [i \in 1..Len(NewestFiles(files)) |-> parseSessionSummary(NewestFiles(files)[i])]

\* C24: the sessions query returns the sessions most recent first and
\* capped: the returned sequence has at most 30 summaries and is
\* non-increasing by lastActivity, and files that yield no summary are left
\* out instead of failing the query.
SessionsNewestFirstAndCapped ==
    request.op = "sessions" =>
        /\ outcome = "returned"
        /\ Len(sessions) <= 30
        /\ \A i, j \in 1..Len(sessions) :
               i < j => ~JsGreater(sessions[j].lastActivity, sessions[i].lastActivity)
        /\ \A k \in 1..Len(sessions) : sessions[k] # Null
        /\ Len(sessions) = Cardinality({i \in 1..Len(ParsedSummaries) : ParsedSummaries[i] # Null})
        /\ \A i \in 1..Len(ParsedSummaries) :
               ParsedSummaries[i] # Null => \E k \in 1..Len(sessions) : sessions[k] = ParsedSummaries[i]

\* C24, for the answers in which every summary has a lastActivity
SessionsNewestFirstWhenAllTimed ==
    (request.op = "sessions" /\ \A k \in 1..Len(sessions) : sessions[k].lastActivity # UndefinedStr) =>
        /\ outcome = "returned"
        /\ Len(sessions) <= 30
        /\ \A i, j \in 1..Len(sessions) :
               i < j => ~JsGreater(sessions[j].lastActivity, sessions[i].lastActivity)

-----------------------------------------------------------------------------
(* Session references the transcript query is asked for *)

MaxRefTokens == 3
MaxRefFiles == 2

\* the route takes a reference without separator: a, .jsonl, a.jsonl, the
\* escaped separator, a lone percent sign, the parent reference
RefTokens == {<<97>>, <<46, 106, 115, 111, 110, 108>>, <<97, 46, 106, 115, 111, 110, 108>>, <<37, 50, 70>>, <<37>>, <<46, 46>>}
RawRefs == {Concat(ts) : ts \in SeqsUpTo(RefTokens, MaxRefTokens)} \ {<<>>}

\* every file holds one message that tells its location
TellingFile(name, loc) ==
    FileOf(name, 1, <<JsonLine(MessageRec(<<49>>, MessageOf("user", NoUsage, StringContent(loc))))>>)
RefNames == {<<97, 46, 106, 115, 111, 110, 108>>, <<97, 97, 46, 106, 115, 111, 110, 108>>, <<97, 46, 116, 120, 116>>}
RefDirs ==
    {[i \in 1..Len(ns) |-> TellingFile(ns[i], join(SESSIONS_DIR, ns[i]))] :
        ns \in {s \in SeqsUpTo(RefNames, MaxRefFiles) : \A i, j \in 1..Len(s) : i # j => s[i] # s[j]}}
    \cup {<<Dangling(<<97, 46, 106, 115, 111, 110, 108>>)>>,
          <<Dangling(<<97, 46, 106, 115, 111, 110, 108>>),
            TellingFile(<<97, 97, 46, 106, 115, 111, 110, 108>>, join(SESSIONS_DIR, <<97, 97, 46, 106, 115, 111, 110, 108>>))>>}
\* a session file next to the sessions directory
OutsideSession == join(SESSIONS_DIR, <<46, 46, 47, 97, 46, 106, 115, 111, 110, 108>>)
RefWorkspaces == {NoWorkspace, [loc \in {OutsideSession} |-> TellingFile(<<97, 46, 106, 115, 111, 110, 108>>, loc)]}

\* references the URL parser rewrites before the route is matched: "." and
\* ".." segments (also %2e%2E), a backslash, a query, and references that
\* leave the transcript route for /sessions, /commands, a memory file and /x
DottedRefs == {<<46>>,
               <<37, 50, 101, 37, 50, 69>>,
               <<97, 46, 106, 115, 111, 110, 108, 92, 120>>,
               <<97, 46, 106, 115, 111, 110, 108, 63, 120>>,
               <<97, 47, 46, 46, 47, 97, 46, 106, 115, 111, 110, 108>>,
               <<46, 46, 47, 115, 101, 115, 115, 105, 111, 110, 115, 63>>,
               <<46, 46, 47, 99, 111, 109, 109, 97, 110, 100, 115, 35>>,
               <<46, 46, 47, 109, 101, 109, 111, 114, 121, 47, 102, 105, 108, 101, 47, 98, 117, 103, 115, 37, 50, 70, 97, 46, 109, 100, 63>>,
               <<46, 46, 47, 46, 46, 47, 120, 63>>}

\* targets the URL parser cleans before it reads the path: a tab after the
\* first slash (/<tab>api/sessions), spaces at both ends ( /api/commands ),
\* a line break inside (/api/session/a<LF>.jsonl/transcript); and a
\* reference with "^", which stays as it is (/api/session/a^.jsonl/transcript)
CleanedTargets == {<<47, 9, 97, 112, 105, 47, 115, 101, 115, 115, 105, 111, 110, 115>>,
                   <<32, 47, 97, 112, 105, 47, 99, 111, 109, 109, 97, 110, 100, 115, 32>>,
                   <<47, 97, 112, 105, 47, 115, 101, 115, 115, 105, 111, 110, 47, 97, 10, 46, 106, 115, 111, 110, 108, 47, 116, 114, 97, 110, 115, 99, 114, 105, 112, 116>>,
                   <<47, 97, 112, 105, 47, 115, 101, 115, 115, 105, 111, 110, 47, 97, 94, 46, 106, 115, 111, 110, 108, 47, 116, 114, 97, 110, 115, 99, 114, 105, 112, 116>>}

\* the request target of the transcript query for a reference
SessionUrl(raw) == <<47, 97, 112, 105, 47, 115, 101, 115, 115, 105, 111, 110, 47>> \o raw \o <<47, 116, 114, 97, 110, 115, 99, 114, 105, 112, 116>>

\* a transcript request is on its way, its target in request.s
InitTranscriptOf ==
    /\ env \in Environments
    /\ files \in RefDirs
    /\ dirReadable \in BOOLEAN
    /\ workspace \in RefWorkspaces
    /\ request \in {[NoRequest EXCEPT !.s = url] : url \in {SessionUrl(raw) : raw \in RawRefs \cup DottedRefs} \cup CleanedTargets}
    /\ summary = Null
    /\ transcript = <<>>
    /\ cmds = <<>>
    /\ readAt = NoLocation
    /\ response = NoResponse
    /\ decoded = <<>>
    /\ text = <<>>
    /\ outcome = "none"
    /\ gateway = <<>>
    /\ inFlight = <<>>
    /\ ui = <<>>
    /\ accs = <<>>
    /\ reqs = <<>>
    /\ sessions = <<>>

NextTranscriptOf == request.op = "none" /\ Get(request.s)

SpecTranscriptOf == InitTranscriptOf /\ [][NextTranscriptOf]_vars

\* the files of the sessions directory (the names fs.statSync finds a file
\* for) whose name equals the reference asked for or starts with it, and
\* ends in .jsonl
MatchingFiles ==
    {i \in 1..Len(files) :
        /\ files[i].stat
        /\ EndsWith(files[i].name, JsonlExt)
        /\ StartsWith(files[i].name, SessionRef(request.s))}
DirectlyInSessionsDir(loc) ==
    /\ StartsWith(loc, SESSIONS_DIR \o <<Slash>>)
    /\ \A k \in (Len(SESSIONS_DIR) + 2)..Len(loc) : loc[k] # Slash
    /\ SubSeq(loc, Len(SESSIONS_DIR) + 2, Len(loc)) \notin {<<>>, <<Dot>>, ParentRef}
AnswersForMatchingFile ==
    /\ outcome = "returned"
    /\ response.status \in {200, 404}
    /\ response.status = 200 =>
           \E i \in MatchingFiles : /\ readAt = join(SESSIONS_DIR, files[i].name)
                                    /\ transcript = parseTranscript(files[i])
    /\ MatchingFiles = {} => response = NotFound
    /\ readAt # NoLocation => DirectlyInSessionsDir(readAt)

\* C25: the transcript query answers a session reference with the transcript
\* of a file of the sessions directory whose name equals the reference or
\* starts with it and ends in .jsonl, and answers with the not-found signal
\* whenever no such file exists; no reference makes it read a file outside
\* the sessions directory.
TranscriptOfMatchingFileOrNotFound ==
    request.op = "transcriptOf" => AnswersForMatchingFile

\* C25, for the references that are well-formed percent-encodings
TranscriptOfMatchingFileWhenDecodable ==
    (request.op = "transcriptOf" /\ decodeURIComponent(request.s) # URIError) => AnswersForMatchingFile

-----------------------------------------------------------------------------
(* Requests served side by side over one sessions directory *)

MaxRequests == 2

SharedFiles ==
    {FileOf(NameA, 2, <<JsonLine(SessionRec(<<49>>)),
                        JsonLine(MessageRec(<<53>>, MessageOf("assistant", NoUsage,
                            ArrayContent(<<ToolCallBlock(<<116, 49>>, "exec", EmptyArgs),
                                           ToolResultBlock(<<116, 49>>, "exec", StringContent(<<111, 107>>))>>))))>>),
     FileOf(NameB, 1, <<JsonLine(MessageRec(<<55>>, MessageOf("assistant", NoUsage,
                            ArrayContent(<<TextBlock(<<97>>),
                                           ToolCallBlock(<<116, 50>>, "read", EmptyArgs),
                                           ToolCallBlock(<<116, 51>>, "exec", EmptyArgs)>>)))),
                        JsonLine(ModelChangeRec(<<56>>, <<109, 49>>, <<112, 49>>))>>),
     FileOf(NameC, 0, <<JsonLine(MessageRec(<<57>>, MessageOf("assistant", NoUsage,
                            ArrayContent(<<ToolCallBlock(<<116, 52>>, "exec", EmptyArgs)>>)))),
                        JsonLine(MessageRec(<<49, 48>>, MessageOf("assistant", NoUsage,
                            ArrayContent(<<TextBlock(<<98>>), NullBlock>>))))>>)}
SharedDirs == {s \in SeqsUpTo(SharedFiles, 2) : \A i, j \in 1..Len(s) : i # j => s[i] # s[j]}

CallsOn(dir) ==
    {[NoCall EXCEPT !.op = "commands", !.maxFiles = mf, !.maxCmds = mc] : mf \in 1..2, mc \in {1, 3}}
    \cup {[NoCall EXCEPT !.op = "transcript", !.file = i] : i \in 1..Len(dir)}

InitShared ==
    /\ files \in SharedDirs
    /\ dirReadable \in BOOLEAN
    /\ workspace = NoWorkspace
    /\ request = NoRequest
    /\ summary = Null
    /\ transcript = <<>>
    /\ cmds = <<>>
    /\ readAt = NoLocation
    /\ response = NoResponse
    /\ decoded = <<>>
    /\ text = <<>>
    /\ outcome = "none"
    /\ env = [HOME |-> UndefinedStr]
    /\ gateway = <<>>
    /\ inFlight = <<>>
    /\ ui = <<>>
    /\ sessions = <<>>
    /\ reqs \in [1..MaxRequests -> CallsOn(files)]
    /\ accs = [r \in 1..MaxRequests |-> <<>>]

NextShared == \E r \in 1..MaxRequests : Begin(r) \/ Step(r) \/ Finish(r)

SpecShared == InitShared /\ [][NextShared]_vars

\* what request r returns when it is the only one
Alone(r) ==
    IF reqs[r].op = "commands" THEN extractCommands(files, dirReadable, reqs[r].maxFiles, reqs[r].maxCmds)
    ELSE parseTranscript(files[reqs[r].file])
\* request r, the only one, ends in a TypeError
AloneRaises(r) ==
    IF reqs[r].op = "commands" THEN CommandsThrow(files, dirReadable, reqs[r].maxFiles, reqs[r].maxCmds)
    ELSE TranscriptThrows(files[reqs[r].file])

\* C26: all state is request-local: every view operation starts from fresh
\* accumulators and only reads files, so under any interleaving of requests
\* over unchanged files each request returns exactly what it returns when
\* run alone, and no request changes what a later request observes: a
\* request that is answered holds the answer of its lone run, and a request
\* is left without an answer only when its lone run raises.
EveryRequestAnswersAsAlone ==
    \A r \in DOMAIN reqs :
        /\ reqs[r].pc = "done" => ~AloneRaises(r) /\ reqs[r].result = Alone(r)
        /\ (~Running /\ reqs[r].pc # "done") => AloneRaises(r)

\* the accumulators themselves are request-local: whatever the interleaving,
\* an answered request holds the answer of its lone run, and a request
\* raises only when its lone run raises
AnswersAndRaisesAsAlone ==
    \A r \in DOMAIN reqs :
        /\ reqs[r].pc = "done" => ~AloneRaises(r) /\ reqs[r].result = Alone(r)
        /\ reqs[r].pc = "raised" => AloneRaises(r)

-----------------------------------------------------------------------------
(* The controller of the Observability tab.  A call runs up to its first    *)
(* await in one piece, then waits in inFlight; when the fetch it waits for  *)
(* settles, the rest of the call up to the next await runs in one piece.    *)

NoError == "null"
NoSelection == UndefinedStr
Pending == -1
\* [] and {} of the four refreshed fields
Nothing == 0
\* the JSON document null, as a fetch of a refresh is held to have delivered it
NullDoc == -2

\* what the network hands to fetch: a response with its status and its
\* body (json: whether the body is a JSON text, null: whether that text is
\* the document null, error: String of what res.json() rejects with when it
\* is no JSON text), or a rejection (error: String of it)
OkReply(body) == [kind |-> "response", status |-> 200, json |-> TRUE, null |-> FALSE, body |-> body, error |-> ""]
HttpError(status) == [kind |-> "response", status |-> status, json |-> TRUE, null |-> FALSE, body |-> Nothing, error |-> ""]
NotJson(error) == [kind |-> "response", status |-> 200, json |-> FALSE, null |-> FALSE, body |-> Nothing, error |-> error]
NetworkError(error) == [kind |-> "rejection", status |-> 0, json |-> FALSE, null |-> FALSE, body |-> Nothing, error |-> error]

\* fetchJson: the rejection of fetch passes through; Error("HTTP <status>")
\* for a response that is not ok (res.ok: status 200 to 299); else what
\* res.json() gives, the document (null: it is the document null) or its
\* rejection
fetchJson(reply) ==
    IF reply.kind = "rejection" THEN [threw |-> TRUE, err |-> reply.error, null |-> FALSE, value |-> Nothing]
    ELSE IF reply.status \notin 200..299
    THEN [threw |-> TRUE, err |-> "Error: HTTP " \o ToString(reply.status), null |-> FALSE, value |-> Nothing]
    ELSE IF ~reply.json THEN [threw |-> TRUE, err |-> reply.error, null |-> FALSE, value |-> Nothing]
    ELSE [threw |-> FALSE, err |-> NoError, null |-> reply.null, value |-> reply.body]

InitialState ==
    [obsLoading |-> FALSE, obsError |-> NoError,
     obsSessions |-> Nothing, obsCommands |-> Nothing, obsMemoryDirs |-> Nothing, obsMemoryChanges |-> Nothing,
     obsSelectedSession |-> NoSelection, obsTranscript |-> <<>>, obsTranscriptLoading |-> FALSE]

RefreshCall ==
    [kind |-> "refresh", pc |-> "all", file |-> NoSelection, sess |-> Pending, cmd |-> Pending, mem |-> Pending]
TranscriptCall(file) ==
    [kind |-> "transcript", pc |-> "tx", file |-> file, sess |-> Pending, cmd |-> Pending, mem |-> Pending]
Remove(seq, k) == SubSeq(seq, 1, k - 1) \o SubSeq(seq, k + 1, Len(seq))

MaxInFlight == 2

ServerVars == <<files, dirReadable, summary, transcript, cmds, workspace, readAt, response, decoded, text,
                sessions, reqs, accs, gateway, env>>

\* the guard left out: every call starts a refresh
Busy_never(state) == FALSE

\* if (state.obsLoading) return
Busy(state) == state.obsLoading

\* catch (err) { state.obsError = String(err) } finally { state.obsLoading = false }
AfterFailure(state, err) == [state EXCEPT !.obsError = err, !.obsLoading = FALSE]

\* loadObservability(state), up to the await of Promise.all
loadObservability ==
    /\ request' = [NoRequest EXCEPT !.op = "loadObservability"]
    /\ IF Busy(ui)
       THEN /\ outcome' = "ignored"
            /\ UNCHANGED <<ui, inFlight>>
       ELSE /\ Len(inFlight) < MaxInFlight
            /\ outcome' = "started"
            /\ ui' = [ui EXCEPT !.obsLoading = TRUE, !.obsError = NoError]
            /\ inFlight' = Append(inFlight, RefreshCall)
    /\ UNCHANGED ServerVars

\* loadObsTranscript(state, file), up to the await of fetchJson. The path
\* is built inside the try, before fetch is called: when
\* encodeURIComponent(file) raises, no fetch is issued, and the catch and the
\* finally run at once
loadObsTranscript(file) ==
    /\ request' = [NoRequest EXCEPT !.op = "loadObsTranscript", !.s = file]
    /\ IF encodeURIComponent(file) = URIError
       THEN /\ outcome' = "returned"
            /\ ui' = [ui EXCEPT !.obsSelectedSession = file, !.obsTranscript = <<>>, !.obsTranscriptLoading = FALSE]
            /\ inFlight' = inFlight
       ELSE /\ Len(inFlight) < MaxInFlight
            /\ outcome' = "started"
            /\ ui' = [ui EXCEPT !.obsSelectedSession = file, !.obsTranscript = <<>>, !.obsTranscriptLoading = TRUE]
            /\ inFlight' = Append(inFlight, TranscriptCall(file))
    /\ UNCHANGED ServerVars

AllSettled(c) == c.sess # Pending /\ c.cmd # Pending /\ c.mem # Pending

\* String(err) of what encodeURIComponent raises
MalformedUri == "URIError: URI malformed"

\* String(err) of the TypeError raised by reading property prop of the
\* document null (the text of V8)
NullRead(prop) == "TypeError: Cannot read properties of null (reading '" \o prop \o "')"

\* one of the three fetches of Promise.all settles, for the refresh at k. A
\* failed fetch rejects Promise.all and ends the call in the catch. When the
\* three have succeeded the four fields are assigned one after the other
\* (46-49), each from its document: reading a property of the document null
\* raises TypeError, which ends the call in the catch with the fields before
\* it assigned and the others not. Then, with a session selected, the path
\* of its transcript is built: encodeURIComponent(state.obsSelectedSession)
\* may raise, which ends the call in the catch without a transcript fetch
RefreshFetchSettles(k, which, reply) ==
    /\ k \in 1..Len(inFlight)
    /\ inFlight[k].kind = "refresh" /\ inFlight[k].pc = "all"
    /\ inFlight[k][which] = Pending
    /\ request' = [NoRequest EXCEPT !.op = "refreshFetch"]
    /\ LET r   == fetchJson(reply)
           c   == [inFlight[k] EXCEPT ![which] = IF r.null THEN NullDoc ELSE r.value]
           s46 == [ui EXCEPT !.obsSessions = c.sess]
           s47 == [s46 EXCEPT !.obsCommands = c.cmd]
           got == [s47 EXCEPT !.obsMemoryDirs = c.mem, !.obsMemoryChanges = c.mem]
           raised == IF r.threw THEN r.err
                     ELSE IF ~AllSettled(c) THEN NoError
                     ELSE IF c.sess = NullDoc THEN NullRead("sessions")
                     ELSE IF c.cmd = NullDoc THEN NullRead("commands")
                     ELSE IF c.mem = NullDoc THEN NullRead("directories")
                     ELSE IF TruthyStr(ui.obsSelectedSession) /\ encodeURIComponent(ui.obsSelectedSession) = URIError
                     THEN MalformedUri
                     ELSE NoError
           reached == IF r.threw \/ c.sess = NullDoc THEN ui
                      ELSE IF c.cmd = NullDoc THEN s46
                      ELSE IF c.mem = NullDoc THEN s47
                      ELSE got
       IN  /\ outcome' = IF raised # NoError THEN raised ELSE "returned"
           /\ IF raised # NoError
              THEN /\ ui' = AfterFailure(reached, raised)
                   /\ inFlight' = Remove(inFlight, k)
              ELSE IF ~AllSettled(c)
              THEN /\ ui' = ui
                   /\ inFlight' = [inFlight EXCEPT ![k] = c]
              ELSE IF TruthyStr(ui.obsSelectedSession)
              THEN /\ ui' = got
                   /\ inFlight' = [inFlight EXCEPT ![k] = [c EXCEPT !.pc = "tx", !.file = ui.obsSelectedSession]]
              ELSE /\ ui' = [got EXCEPT !.obsLoading = FALSE]
                   /\ inFlight' = Remove(inFlight, k)
    /\ UNCHANGED ServerVars

\* the transcript fetch of the call at k settles: txData.entries (56) and
\* data.entries (73) raise TypeError on the document null, as a failed
\* fetch ends the call in its catch
TranscriptFetchSettles(k, reply) ==
    /\ k \in 1..Len(inFlight)
    /\ inFlight[k].pc = "tx"
    /\ request' = [NoRequest EXCEPT !.op = "transcriptFetch", !.s = inFlight[k].file]
    /\ LET r == fetchJson(reply)
           raised == IF r.threw THEN r.err ELSE IF r.null THEN NullRead("entries") ELSE NoError
       IN  /\ outcome' = IF raised # NoError THEN raised ELSE "returned"
           /\ ui' = IF inFlight[k].kind = "refresh"
                    THEN IF raised # NoError THEN AfterFailure(ui, raised)
                         ELSE [ui EXCEPT !.obsTranscript = r.value, !.obsLoading = FALSE]
                    ELSE [ui EXCEPT !.obsTranscript = IF raised # NoError THEN <<>> ELSE r.value,
                                    !.obsTranscriptLoading = FALSE]
    /\ inFlight' = Remove(inFlight, k)
    /\ UNCHANGED ServerVars

\* the sessions shown, and what the server answers: for the transcript of a
\* session its entries, for the three views one of their versions
\* (the last one is a lone surrogate, which encodeURIComponent refuses)
ShownSessions == {<<65>>, <<66>>, <<55296>>}
EntriesOf(file) == <<file>>
MaxVersion == 1
\* (the replies without a JSON body and the document null are given the
\* empty body of the view; of the three fetches of a refresh each fails in
\* one of the three ways)
Failures ==
    [sess |-> HttpError(403), cmd |-> NetworkError("TypeError: Failed to fetch"),
     mem  |-> NotJson("SyntaxError: Unexpected token '<', \"<!doctype \"... is not valid JSON")]
Replies(bodies, empty, failures) ==
    {OkReply(b) : b \in bodies} \cup {[OkReply(empty) EXCEPT !.null = TRUE]} \cup {[r EXCEPT !.body = empty] : r \in failures}

InitUI ==
    /\ files = <<>>
    /\ dirReadable = TRUE
    /\ workspace = NoWorkspace
    /\ request = NoRequest
    /\ summary = Null
    /\ transcript = <<>>
    /\ cmds = <<>>
    /\ readAt = NoLocation
    /\ response = NoResponse
    /\ decoded = <<>>
    /\ text = <<>>
    /\ outcome = "none"
    /\ env = [HOME |-> UndefinedStr]
    /\ gateway = <<>>
    /\ sessions = <<>>
    /\ reqs = <<>>
    /\ accs = <<>>
    /\ ui = InitialState
    /\ inFlight = <<>>

NextUI ==
    \/ loadObservability
    \/ \E file \in ShownSessions : loadObsTranscript(file)
    \/ \E k \in 1..Len(inFlight), which \in {"sess", "cmd", "mem"} :
           \E reply \in Replies(1..MaxVersion, Nothing, {Failures[which]}) : RefreshFetchSettles(k, which, reply)
    \/ \E k \in 1..Len(inFlight) : \E reply \in Replies({EntriesOf(inFlight[k].file)}, <<>>,
                                   {Failures[which] : which \in DOMAIN Failures}) :
           TranscriptFetchSettles(k, reply)

SpecUI == InitUI /\ [][NextUI]_vars

TranscriptRequestInFlight == \E k \in 1..Len(inFlight) : inFlight[k].pc = "tx"

\* C27: in the UI controller, under any interleaving of loadObsTranscript
\* calls, loadObservability refreshes and their responses, whenever no
\* transcript request is in flight obsTranscript is either empty or the
\* entries fetched for the currently selected session obsSelectedSession.
TranscriptBelongsToSelection ==
    ~TranscriptRequestInFlight =>
        \/ ui.obsTranscript = <<>>
        \/ ui.obsTranscript = EntriesOf(ui.obsSelectedSession)

RefreshesInFlight == {k \in 1..Len(inFlight) : inFlight[k].kind = "refresh"}

\* C28: loadObservability is not re-entrant: a call made while obsLoading is
\* true issues no fetch and changes no field of the state, so at most one
\* refresh is in flight at any time and obsLoading is true exactly while that
\* refresh is in flight.
RefreshNotReentrant ==
    /\ [](Cardinality(RefreshesInFlight) <= 1 /\ (ui.obsLoading <=> RefreshesInFlight # {}))
    /\ [][(request'.op = "loadObservability" /\ ui.obsLoading) => (ui' = ui /\ inFlight' = inFlight)]_vars

\* a refresh call turned away while a refresh waits for its fetches
WitnessRefreshIgnored ==
    /\ request.op = "loadObservability"
    /\ outcome = "ignored"
    /\ ui.obsLoading
    /\ RefreshesInFlight # {}

RejectedFetchKeepsData ==
    [][/\ (request'.op = "refreshFetch"
           /\ outcome' \notin {"returned", MalformedUri, NullRead("sessions"), NullRead("commands"), NullRead("directories")}) =>
              /\ ui'.obsSessions = ui.obsSessions
              /\ ui'.obsCommands = ui.obsCommands
              /\ ui'.obsMemoryDirs = ui.obsMemoryDirs
              /\ ui'.obsMemoryChanges = ui.obsMemoryChanges
       /\ (request'.op = "refreshFetch" /\ outcome' # "returned") =>
              ui'.obsError = outcome' /\ ~ui'.obsLoading
       /\ (request'.op \in {"refreshFetch", "transcriptFetch"} /\ outcome' = "returned"
           /\ ui.obsLoading /\ ~ui'.obsLoading) =>
              ui'.obsError = NoError]_vars

-----------------------------------------------------------------------------
(* The same session files put to the standalone server and to the gateway *)

MaxGatewayRecords == 3

UsageWithCost(i, t, c) == [UsageOf(i, UndefinedNum, UndefinedNum, t) EXCEPT !.cost = c]
GatewayRecords ==
    {SessionRec(<<49>>), SessionRec(UndefinedStr),
     ModelChangeRec(<<57>>, <<109, 49>>, <<112, 49>>),
     ModelChangeRec(UndefinedStr, UndefinedStr, <<112, 50>>),
     CustomRec(<<49, 48>>, "model-snapshot", DataOf(<<109, 51>>, UndefinedStr)),
     CustomRec(UndefinedStr, "model-snapshot", NoData),
     [NoRecord EXCEPT !.type = "other", !.timestamp = <<>>],
     MessageRec(<<57>>, NoMessage),
     MessageRec(<<50>>, MessageOf("system", NoUsage, NoContent)),
     MessageRec(<<49, 48>>, [MessageOf("user", UsageWithCost(1, 3, 2), StringContent(<<104, 105>>))
                                EXCEPT !.channel = <<99>>]),
     MessageRec(UndefinedStr, MessageOf("assistant", UsageOf(1, UndefinedNum, 2, 3),
         ArrayContent(<<TextBlock(<<97>>),
                        ToolCallBlock(<<116, 49>>, "sessions_spawn", SpawnArgs(UndefinedStr, <<104, 105>>, <<109>>)),
                        ToolResultBlock(<<116, 49>>, "sessions_spawn",
                            ArrayContent(<<TextBlock(<<111>>), OtherBlock, TextBlock(UndefinedStr)>>)),
                        ToolCallBlock(<<116, 49>>, "exec", NoArgs)>>))),
     MessageRec(<<53>>, MessageOf("toolResult", NoUsage,
         ArrayContent(<<ToolResultBlock(<<116, 50>>, "read", StringContent(<<111, 107>>)),
                        TextBlock(<<32>>),
                        ToolCallBlock(UndefinedStr, "subagents", NoArgs)>>))),
     MessageRec(<<54>>, MessageOf("assistant", NoUsage,
         ArrayContent(<<ToolCallBlock(<<116, 55>>, "subagents", QuotedModelArgs),
                        ToolCallBlock(<<116, 56>>, "sessions_spawn", NullTaskArgs),
                        ToolCallBlock(<<116, 57>>, "subagents", IndexedArgs)>>)))}

\* a second, older session file with one command
OlderFile ==
    FileOf(NameB, 0, <<JsonLine(MessageRec(<<55>>, MessageOf("assistant", NoUsage,
                           ArrayContent(<<ToolCallBlock(<<116, 57>>, "ls", EmptyArgs)>>))))>>)

GatewayFiles == {FileOf(NameA, 1, ls) : ls \in SeqsUpTo({JsonLine(r) : r \in GatewayRecords}, MaxGatewayRecords)}

\* the caps of a commands query: the defaults, and caps that cut
GatewayCaps == {<<20, 200>>, <<1, 2>>}

InitGateway ==
    /\ files \in {<<f, OlderFile>> : f \in GatewayFiles}
                 \cup {<<f, Dangling(NameB)>> : f \in {g \in GatewayFiles : Len(g.lines) <= 1}}
    /\ dirReadable = TRUE
    /\ workspace = NoWorkspace
    /\ NoResults

NextGateway ==
    /\ request.op = "none"
    /\ \/ AskBothSummary(1)
       \/ AskBothTranscript(1)
       \/ \E c \in GatewayCaps : AskBothCommands(c[1], c[2])

SpecGateway == InitGateway /\ [][NextGateway]_vars

\* C30: the standalone server and the gateway are two implementations of
\* the same engine: on every decoded record sequence the summary, the
\* transcript and the command stream the gateway's parseSessionSummary,
\* parseTranscript and extractCommands return are the ones the server's
\* return.
GatewayAnswersAsServer ==
    /\ (request.op = "summary" /\ outcome = "returned") => gateway.summary = summary
    /\ (request.op = "transcript" /\ outcome = "returned") => gateway.transcript = transcript
    /\ (request.op = "commands" /\ outcome = "returned") => gateway.cmds = cmds

\* both have summarized a session whose model comes from a model-snapshot
\* record and which spawned a sub-agent
WitnessBothSummarized ==
    /\ request.op = "summary"
    /\ outcome = "returned"
    /\ ~summary.null
    /\ ~gateway.summary.null
    /\ summary.model = <<109, 51>>
    /\ Len(gateway.summary.subAgents) >= 1

====
